---- MODULE Spec2Model ----
(***************************************************************************)
(* Verification model of axon-go: the in-memory KnowledgeGraph             *)
(* (internal/graph/graph.go), the ingestion pipeline's RunPipeline         *)
(* (internal/ingestion/pipeline.go) and the BadgerDB storage backend       *)
(* (internal/storage/badger_backend.go).                                   *)
(*                                                                         *)
(* Specifications:                                                         *)
(*   SpecGraph    - the graph's operations, each atomic (every operation   *)
(*                  holds g.mu for its whole body)                         *)
(*   SpecConc     - goroutines calling the graph's methods concurrently,   *)
(*                  one map access per step, under g.mu                    *)
(***************************************************************************)
EXTENDS Integers, Sequences, FiniteSets, TLC

\* ------------------------------------------------------------------------
\* Bounds of the model
\* ------------------------------------------------------------------------
MaxNodeID == 2
MaxRelID == 2
NumProcs == 2
MaxStoreOps == 2
MaxBatch == 2
MaxLoadRels == 1
MaxRuns == 2
MaxLimit == 2
MaxSearchNodes == 3
MaxDepth == 2
MaxCalls == 2
MaxCommunityCalls == 3
DepthLimit == 10
RRFK == 60
MaxIterations == 100

NodeIDs == 1..MaxNodeID
RelIDs == 1..MaxRelID
Procs == 1..NumProcs

\* The NodeLabel and RelType constants the model uses; callers of the graph
\* and of the store pass nodes labelled from Labels and relationships typed
\* from RelTypes, the pipeline also creates "file" nodes and "defines" edges.
Labels == {"function", "class"}
AllLabels == Labels \cup {"file"}
RelTypes == {"calls", "extends"}
AllRelTypes == RelTypes \cup {"defines"}
FilePaths == {"a.go", "b.go"}

\* Strings whose characters the code looks at are sequences of characters.
Names == << <<"f", "o", "o">>, <<"B", "a", "r">>, <<"g", "e", "t", "_", "x">> >>

\* The Name a caller gives the node with a given ID (an ID is built from the
\* label, the file path and the name: GenerateID).
NodeName(id) == Names[((id - 1) % Len(Names)) + 1]

\* GraphNode: the fields the graph and the store read (ID, Label, FilePath,
\* Name); Content and Signature are empty.
GraphNode ==
    {[id |-> i, label |-> l, filePath |-> f, name |-> NodeName(i)] :
        i \in NodeIDs, l \in Labels, f \in FilePaths}

\* GraphRelationship: ID, Type, Source, Target.
GraphRelationship == [id : RelIDs, type : RelTypes, source : NodeIDs, target : NodeIDs]

\* ------------------------------------------------------------------------
\* Go maps: a finite function; a key is present iff it is in the DOMAIN
\* ------------------------------------------------------------------------
EmptyMap == [x \in {} |-> 0]

MapPut(m, k, v) == [x \in (DOMAIN m) \cup {k} |-> IF x = k THEN v ELSE m[x]]

MapDel(m, k) == [x \in (DOMAIN m) \ {k} |-> m[x]]

MapValues(m) == {m[k] : k \in DOMAIN m}

VARIABLES
    nodes,          \* g.nodes         : id -> GraphNode
    relationships,  \* g.relationships : id -> GraphRelationship
    byLabel,        \* g.byLabel       : label -> (id -> GraphNode)
    byRelType,      \* g.byRelType     : type -> (id -> GraphRelationship)
    outgoing,       \* g.outgoing      : source id -> (rel id -> GraphRelationship)
    incoming,       \* g.incoming      : target id -> (rel id -> GraphRelationship)
    last,           \* the last operation applied to the graph, its argument and result
    mu,             \* g.mu: the goroutine holding the write lock (0: none), and the read holders
    pc,             \* per goroutine: where it is in the graph method it is running
    arg,            \* per goroutine: the argument of that method
    obs,            \* per goroutine: whether a read it made saw an index out of step
    kvNode,         \* BadgerDB keys "n:<id>"       : id -> GraphNode
    kvRel,          \* BadgerDB keys "r:<id>"       : id -> GraphRelationship
    kvOut,          \* BadgerDB keys "i:out:<src>:<type>:<rel>" (the value is <rel>)
    kvIn,           \* BadgerDB keys "i:in:<tgt>:<type>:<rel>"  (the value is <rel>)
    kvEmb,          \* BadgerDB keys "e:<id>"       : id -> embedding
    nodeCount,      \* BadgerBackend.nodeCount
    relationshipCount, \* BadgerBackend.relationshipCount
    ftsIndex,       \* BadgerBackend.ftsIndex : token -> node IDs (with multiplicity)
    slast,          \* the last call made on the store, its argument and result, and the
                    \* relationships stored before it
    storeOps,       \* number of calls made on the store
    ppc,            \* RunPipeline: the phase it has reached ("idle" before a call, "done" after)
    running,        \* RunPipeline: the phase or step in progress ("" between two of them)
    plog,           \* RunPipeline: the phases started so far in this call, in order
    pin,            \* RunPipeline: the arguments of this call
    todo,           \* RunPipeline: the walked entries ProcessStructure has not handled yet
    cancelled,      \* whether and when the caller cancelled ctx during this call
    pret,           \* RunPipeline: what the call returned ("none" while it runs)
    psnap,          \* the contents of the store when this call started
    runs,           \* number of RunPipeline calls made
    hin,            \* HybridSearch: the two result lists it fuses, and its limit
    hout,           \* HybridSearch: whether it has returned, and the list it returned
    dnodes,         \* ProcessDeadCode: g.nodes, id -> node with the fields the passes use
    drels,          \* ProcessDeadCode: the calls and extends relationships of g
    dpc,            \* ProcessDeadCode: number of passes done
    cfiles,         \* ProcessCoupling: the file nodes of g, id -> node
    cgit,           \* ProcessCoupling: what parseGitLog returns (error or the commits)
    cedges,         \* ProcessCoupling: the coupled_with relationships added to g
    cout,           \* ProcessCoupling: whether it has returned, and the count it returned
    xg,             \* ProcessProcesses: the graph the parsers built (nodes and calls)
    xruns,          \* ProcessProcesses: what each run on that graph added and returned
    mg,             \* DetectCommunities: the graph it is run on (nodes and calls)
    mout,           \* DetectCommunities: whether it has returned, and what it added and returned
    wtree,          \* walker: the directory tree WalkRepo is called on
    wout,           \* walker: what WalkRepo returned
    aentries,       \* parsing: the file entries ProcessParsing is called on
    aout,           \* parsing: the graph after ProcessParsing
    edocs,          \* embedder: the documents EmbedNodes passes to both passes
    evocab,         \* embedder: e.vocab, term -> index
    edocCount,      \* embedder: e.docCount
    eidf,           \* embedder: e.idf, term -> the N and df whose quotient's logarithm is stored
    epc,            \* embedder: which pass of EmbedNodes is next
    rrepo,          \* reindex: per file, the names its function calls
    rold,           \* reindex: the contents at the last indexing
    rentries,       \* reindex: the entries ReindexFiles is called with
    rtodo,          \* reindex: the entries whose nodes are still to be removed
    rpc,            \* reindex: the step that is next
    rret,           \* reindex: what ReindexFiles returned
    rsnap           \* reindex: what the store's reads returned when ReindexFiles was called

graphVars == <<nodes, relationships, byLabel, byRelType, outgoing, incoming>>

concVars == <<mu, pc, arg, obs>>

storeVars == <<kvNode, kvRel, kvOut, kvIn, kvEmb, nodeCount, relationshipCount,
               ftsIndex, slast, storeOps>>

pipeVars == <<ppc, running, plog, pin, todo, cancelled, pret, psnap, runs>>

hybridVars == <<hin, hout>>

\* The state of the pure functions checked on their own.
deadVars == <<dnodes, drels, dpc>>

\* The state of ProcessCoupling.
couplingVars == <<cfiles, cgit, cedges, cout>>

\* The state of ProcessProcesses.
processesVars == <<xg, xruns>>

\* The state of DetectCommunities.
communitiesVars == <<mg, mout>>

\* The state of the repository walker.
walkerVars == <<wtree, wout>>

\* The state of the parsing phase.
parsingVars == <<aentries, aout>>

\* The state of the TF-IDF embedder.
embedderVars == <<edocs, evocab, edocCount, eidf, epc>>

\* The state of the watcher's incremental re-indexing.
reindexVars == <<rrepo, rold, rentries, rtodo, rpc, rret, rsnap>>

auxVars == <<hybridVars, deadVars, couplingVars, processesVars, communitiesVars, walkerVars, parsingVars, embedderVars, reindexVars>>

\* What the goroutines of SpecConc never touch.
concFrame == <<last, storeVars, pipeVars, auxVars>>

vars == <<nodes, relationships, byLabel, byRelType, outgoing, incoming, last,
          mu, pc, arg, obs,
          kvNode, kvRel, kvOut, kvIn, kvEmb, nodeCount, relationshipCount,
          ftsIndex, slast, storeOps,
          ppc, running, plog, pin, todo, cancelled, pret, psnap, runs,
          hin, hout, dnodes, drels, dpc,
          cfiles, cgit, cedges, cout,
          xg, xruns,
          mg, mout,
          wtree, wout,
          aentries, aout,
          edocs, evocab, edocCount, eidf, epc,
          rrepo, rold, rentries, rtodo, rpc, rret, rsnap>>

NoOp == [op |-> "none", arg |-> 0, had |-> FALSE, old |-> 0, ret |-> 0, cnt |-> 0]

\* NewKnowledgeGraph: all six maps empty.  An absent inner map and an empty
\* inner map are the same value here: every reader treats them alike.
NewKnowledgeGraph ==
    /\ nodes = EmptyMap
    /\ relationships = EmptyMap
    /\ byLabel = [l \in AllLabels |-> EmptyMap]
    /\ byRelType = [t \in AllRelTypes |-> EmptyMap]
    /\ outgoing = [n \in NodeIDs |-> EmptyMap]
    /\ incoming = [n \in NodeIDs |-> EmptyMap]

\* ------------------------------------------------------------------------
\* Queries
\* ------------------------------------------------------------------------
GetNode(nodeID) == IF nodeID \in DOMAIN nodes THEN {nodes[nodeID]} ELSE {}

GetNodesByLabel(label) == MapValues(byLabel[label])

GetRelationshipsByType(relType) == MapValues(byRelType[relType])

\* relType = "" stands for the call without a type filter.
GetOutgoing(nodeID, relType) ==
    IF relType # ""
    THEN {r \in MapValues(outgoing[nodeID]) : r.type = relType}
    ELSE MapValues(outgoing[nodeID])

GetIncoming(nodeID, relType) ==
    IF relType # ""
    THEN {r \in MapValues(incoming[nodeID]) : r.type = relType}
    ELSE MapValues(incoming[nodeID])

RelationshipCount == Cardinality(DOMAIN relationships)

NodeCount == Cardinality(DOMAIN nodes)

\* ------------------------------------------------------------------------
\* AddNode
\* ------------------------------------------------------------------------
\* The label index after AddNode(node): the old entry is deleted when the
\* label changed, then the node is put under its label.
AddNodeLabelIndexNoDelete(node) ==
    [byLabel EXCEPT ![node.label] = MapPut(@, node.id, node)]

AddNodeLabelIndex(node) ==
    LET cleared ==
            IF node.id \in DOMAIN nodes /\ nodes[node.id].label # node.label
            THEN [byLabel EXCEPT ![nodes[node.id].label] = MapDel(@, node.id)]
            ELSE byLabel
    IN  [cleared EXCEPT ![node.label] = MapPut(@, node.id, node)]

AddNode(node) ==
    /\ nodes' = MapPut(nodes, node.id, node)
    /\ byLabel' = AddNodeLabelIndex(node)
    /\ last' = [op |-> "AddNode", arg |-> node, had |-> node.id \in DOMAIN nodes,
                old |-> IF node.id \in DOMAIN nodes THEN nodes[node.id].label ELSE "",
                ret |-> 0, cnt |-> 0]
    /\ UNCHANGED <<relationships, byRelType, outgoing, incoming>>

\* ------------------------------------------------------------------------
\* cascadeRelationshipsForNode, as a function of the three relationship
\* indexes and the relationship map
\* ------------------------------------------------------------------------
\* State of the relationship side of the graph.
RelState(rels, byType, out, inc) ==
    [relationships |-> rels, byRelType |-> byType, outgoing |-> out, incoming |-> inc]

\* First loop: every rel in outgoing[nodeID] is deleted from relationships,
\* byRelType and incoming[rel.Target]; then outgoing[nodeID] is deleted.
CascadeOutgoing(s, nodeID) ==
    LET outRels == MapValues(s.outgoing[nodeID])
        ids == {r.id : r \in outRels}
    IN  [relationships |-> [x \in (DOMAIN s.relationships) \ ids |-> s.relationships[x]],
         byRelType |-> [t \in AllRelTypes |->
            LET gone == {r.id : r \in {q \in outRels : q.type = t}}
            IN  [x \in (DOMAIN s.byRelType[t]) \ gone |-> s.byRelType[t][x]]],
         incoming |-> [n \in NodeIDs |->
            LET gone == {r.id : r \in {q \in outRels : q.target = n}}
            IN  [x \in (DOMAIN s.incoming[n]) \ gone |-> s.incoming[n][x]]],
         outgoing |-> [s.outgoing EXCEPT ![nodeID] = EmptyMap]]

\* Second loop: the same for incoming[nodeID], read after the first loop.
CascadeIncoming(s, nodeID) ==
    LET inRels == MapValues(s.incoming[nodeID])
        ids == {r.id : r \in inRels}
    IN  [relationships |-> [x \in (DOMAIN s.relationships) \ ids |-> s.relationships[x]],
         byRelType |-> [t \in AllRelTypes |->
            LET gone == {r.id : r \in {q \in inRels : q.type = t}}
            IN  [x \in (DOMAIN s.byRelType[t]) \ gone |-> s.byRelType[t][x]]],
         outgoing |-> [n \in NodeIDs |->
            LET gone == {r.id : r \in {q \in inRels : q.source = n}}
            IN  [x \in (DOMAIN s.outgoing[n]) \ gone |-> s.outgoing[n][x]]],
         incoming |-> [s.incoming EXCEPT ![nodeID] = EmptyMap]]

\* Variant: only the outgoing loop runs.
cascadeOutgoingOnly(s, nodeID) == CascadeOutgoing(s, nodeID)

cascadeRelationshipsForNode(s, nodeID) ==
    CascadeIncoming(CascadeOutgoing(s, nodeID), nodeID)

CurrentRelState == RelState(relationships, byRelType, outgoing, incoming)

SetRelState(s) ==
    /\ relationships' = s.relationships
    /\ byRelType' = s.byRelType
    /\ outgoing' = s.outgoing
    /\ incoming' = s.incoming

\* ------------------------------------------------------------------------
\* RemoveNode
\* ------------------------------------------------------------------------
RemoveNode(nodeID) ==
    IF nodeID \notin DOMAIN nodes
    THEN /\ last' = [op |-> "RemoveNode", arg |-> nodeID, had |-> FALSE, old |-> 0,
                     ret |-> FALSE, cnt |-> RelationshipCount]
         /\ UNCHANGED graphVars
    ELSE /\ nodes' = MapDel(nodes, nodeID)
         /\ byLabel' = [byLabel EXCEPT ![nodes[nodeID].label] = MapDel(@, nodeID)]
         /\ SetRelState(cascadeRelationshipsForNode(CurrentRelState, nodeID))
         /\ last' = [op |-> "RemoveNode", arg |-> nodeID, had |-> FALSE, old |-> 0,
                     ret |-> TRUE, cnt |-> RelationshipCount]

\* ------------------------------------------------------------------------
\* RemoveNodesByFile
\* ------------------------------------------------------------------------
\* The orders in which a range over a Go map may yield the keys in ids.
Orders(ids) ==
    {seq \in [1..Cardinality(ids) -> ids] :
        \A i, j \in 1..Cardinality(ids) : i # j => seq[i] # seq[j]}

\* Variant: only the first collected node has its relationships cascaded.
CascadeHeadOnly(s, idsToRemove) ==
    IF idsToRemove = <<>>
    THEN s
    ELSE cascadeRelationshipsForNode(s, Head(idsToRemove))

RECURSIVE CascadeAll(_, _)
CascadeAll(s, idsToRemove) ==
    IF idsToRemove = <<>>
    THEN s
    ELSE CascadeAll(cascadeRelationshipsForNode(s, Head(idsToRemove)), Tail(idsToRemove))

RemoveNodesByFile(filePath) ==
    LET ids == {id \in DOMAIN nodes : nodes[id].filePath = filePath}
    IN  IF ids = {}
        THEN /\ last' = [op |-> "RemoveNodesByFile", arg |-> filePath, had |-> FALSE,
                         old |-> 0, ret |-> 0, cnt |-> 0]
             /\ UNCHANGED graphVars
        ELSE \E idsToRemove \in Orders(ids) :
                /\ nodes' = [x \in (DOMAIN nodes) \ ids |-> nodes[x]]
                /\ byLabel' = [l \in AllLabels |->
                        [x \in (DOMAIN byLabel[l]) \ {id \in ids : nodes[id].label = l}
                            |-> byLabel[l][x]]]
                /\ SetRelState(CascadeAll(CurrentRelState, idsToRemove))
                /\ last' = [op |-> "RemoveNodesByFile", arg |-> filePath, had |-> FALSE,
                            old |-> 0, ret |-> Len(idsToRemove), cnt |-> 0]

\* ------------------------------------------------------------------------
\* AddRelationship
\* ------------------------------------------------------------------------
\* Variant: the old relationship is taken out of the type index only.
RemoveOldFromTypeIndexOnly(s, relID) ==
    IF relID \in DOMAIN s.relationships
    THEN [s EXCEPT !.byRelType[s.relationships[relID].type] = MapDel(@, relID)]
    ELSE s

\* The indexes with the old relationship of the same ID taken out.
RemoveOldFromIndexes(s, relID) ==
    IF relID \in DOMAIN s.relationships
    THEN LET old == s.relationships[relID]
         IN  [s EXCEPT !.byRelType[old.type] = MapDel(@, relID),
                       !.outgoing[old.source] = MapDel(@, relID),
                       !.incoming[old.target] = MapDel(@, relID)]
    ELSE s

\* Variant: the new relationship is not put into the incoming index.
InsertRelationshipNoIncoming(s, rel) ==
    [s EXCEPT !.relationships = MapPut(@, rel.id, rel),
              !.byRelType[rel.type] = MapPut(@, rel.id, rel),
              !.outgoing[rel.source] = MapPut(@, rel.id, rel)]

\* The new relationship put into the primary map and the three indexes.
InsertRelationship(s, rel) ==
    [s EXCEPT !.relationships = MapPut(@, rel.id, rel),
              !.byRelType[rel.type] = MapPut(@, rel.id, rel),
              !.outgoing[rel.source] = MapPut(@, rel.id, rel),
              !.incoming[rel.target] = MapPut(@, rel.id, rel)]

AddRelationship(rel) ==
    /\ SetRelState(InsertRelationship(RemoveOldFromIndexes(CurrentRelState, rel.id), rel))
    /\ last' = [op |-> "AddRelationship", arg |-> rel,
                had |-> rel.id \in DOMAIN relationships,
                old |-> IF rel.id \in DOMAIN relationships
                        THEN relationships[rel.id] ELSE 0,
                ret |-> 0, cnt |-> RelationshipCount]
    /\ UNCHANGED <<nodes, byLabel>>

\* ------------------------------------------------------------------------
\* SpecGraph: any sequence of operations on one graph
\* ------------------------------------------------------------------------
\* No goroutine is inside a graph method.
ConcIdle ==
    /\ mu = [writer |-> 0, readers |-> {}]
    /\ pc = [p \in Procs |-> "idle"]
    /\ arg = [p \in Procs |-> 0]
    /\ obs = [p \in Procs |-> FALSE]

\* NewBadgerBackend + Initialize on a fresh path: an empty database, the
\* counters and the FTS index as rebuildFTSIndexFromDB leaves them.
NoStoreOp ==
    [op |-> "none", ok |-> TRUE, nodes |-> EmptyMap, rels |-> EmptyMap, before |-> EmptyMap]

FreshStore ==
    /\ kvNode = EmptyMap
    /\ kvRel = EmptyMap
    /\ kvOut = {}
    /\ kvIn = {}
    /\ kvEmb = EmptyMap
    /\ nodeCount = 0
    /\ relationshipCount = 0
    /\ ftsIndex = EmptyMap
    /\ slast = NoStoreOp
    /\ storeOps = 0

\* The contents of the database, by key prefix.
StoreContents == <<kvNode, kvRel, kvOut, kvIn, kvEmb>>

NotCancelled ==
    [done |-> FALSE, during |-> "", started |-> 0,
     store |-> <<EmptyMap, EmptyMap, {}, {}, EmptyMap>>]

\* No RunPipeline call has been made.
PipelineIdle ==
    /\ ppc = "idle"
    /\ running = ""
    /\ plog = <<>>
    /\ pin = [entries |-> <<>>, embeddings |-> FALSE, hasStore |-> FALSE]
    /\ todo = <<>>
    /\ cancelled = NotCancelled
    /\ pret = "none"
    /\ psnap = <<EmptyMap, EmptyMap, {}, {}, EmptyMap>>
    /\ runs = 0

\* HybridSearch has not been called.
HybridIdle ==
    /\ hin = [fts |-> <<>>, vec |-> <<>>, limit |-> 1]
    /\ hout = [done |-> FALSE, results |-> <<>>]

\* ProcessDeadCode has not been called.
DeadIdle ==
    /\ dnodes = EmptyMap
    /\ drels = {}
    /\ dpc = 0

\* ProcessCoupling has not been called.
CouplingIdle ==
    /\ cfiles = EmptyMap
    /\ cgit = [ok |-> TRUE, changes |-> <<>>]
    /\ cedges = {}
    /\ cout = [done |-> FALSE, ret |-> 0]

\* ProcessProcesses has not been called.
ProcessesIdle ==
    /\ xg = [nodes |-> EmptyMap, calls |-> {}]
    /\ xruns = <<>>

\* DetectCommunities has not been called.
CommunitiesIdle ==
    /\ mg = [nodes |-> EmptyMap, calls |-> {}]
    /\ mout = [done |-> FALSE, nodes |-> EmptyMap, edges |-> EmptyMap, ret |-> 0]

\* WalkRepo is not being called.
WalkerIdle ==
    /\ wtree = [exists |-> FALSE, readable |-> FALSE, items |-> <<>>]
    /\ wout = [done |-> FALSE, entries |-> <<>>, err |-> "nil"]

\* ProcessParsing is not being called.
ParsingIdle ==
    /\ aentries = <<>>
    /\ aout = [done |-> FALSE, nodes |-> EmptyMap, rels |-> EmptyMap]

\* No embedder exists.
EmbedderIdle ==
    /\ edocs = <<>>
    /\ evocab = EmptyMap
    /\ edocCount = 0
    /\ eidf = EmptyMap
    /\ epc = "idle"

\* No repository is being watched.
ReindexIdle ==
    /\ rrepo = EmptyMap
    /\ rold = EmptyMap
    /\ rentries = <<>>
    /\ rtodo = <<>>
    /\ rpc = "idle"
    /\ rret = 0
    /\ rsnap = EmptyMap

AuxIdle == HybridIdle /\ DeadIdle /\ CouplingIdle /\ ProcessesIdle /\ CommunitiesIdle /\ WalkerIdle /\ ParsingIdle /\ EmbedderIdle /\ ReindexIdle

InitGraph ==
    /\ NewKnowledgeGraph
    /\ last = NoOp
    /\ ConcIdle
    /\ FreshStore
    /\ PipelineIdle
    /\ AuxIdle

DoAddNode == \E node \in GraphNode : AddNode(node)

DoRemoveNode == \E nodeID \in NodeIDs : RemoveNode(nodeID)

DoRemoveNodesByFile == \E filePath \in FilePaths : RemoveNodesByFile(filePath)

DoAddRelationship == \E rel \in GraphRelationship : AddRelationship(rel)

NextGraph ==
    \/ DoAddNode /\ UNCHANGED <<concVars, storeVars, pipeVars, auxVars>>
    \/ DoRemoveNode /\ UNCHANGED <<concVars, storeVars, pipeVars, auxVars>>
    \/ DoRemoveNodesByFile /\ UNCHANGED <<concVars, storeVars, pipeVars, auxVars>>
    \/ DoAddRelationship /\ UNCHANGED <<concVars, storeVars, pipeVars, auxVars>>

SpecGraph == InitGraph /\ [][NextGraph]_vars

\* ------------------------------------------------------------------------
\* Properties of the in-memory graph (SpecGraph)
\* ------------------------------------------------------------------------
\* The relationships, in the primary map or in any index, that touch node v.
TouchingPrimary(v) ==
    {r \in MapValues(relationships) : r.source = v \/ r.target = v}

TouchingIndexed(v) ==
    {r \in UNION ({MapValues(byRelType[t]) : t \in AllRelTypes}
                  \cup {MapValues(outgoing[n]) : n \in NodeIDs}
                  \cup {MapValues(incoming[n]) : n \in NodeIDs}) :
        r.source = v \/ r.target = v}

NothingTouches(v) == TouchingPrimary(v) = {} /\ TouchingIndexed(v) = {}

\* C4 as stated: after remove_node(v), for any ID v, no relationship has v as
\* source or target and no by-type, outgoing or incoming index entry refers to
\* such a relationship.
C4_CascadeAnyID ==
    last.op = "RemoveNode" => NothingTouches(last.arg)

\* C4 amended: after remove_node(v) returns true (v was a node of the graph),
\* no relationship has v as source or target and no by-type, outgoing or
\* incoming index entry refers to such a relationship.
C4_CascadeExistingNode ==
    (last.op = "RemoveNode" /\ last.ret = TRUE) => NothingTouches(last.arg)

\* remove_node returned true and the cascade deleted at least one relationship
\* while another one survives.
C4_Witness ==
    /\ last.op = "RemoveNode"
    /\ last.ret = TRUE
    /\ RelationshipCount < last.cnt
    /\ RelationshipCount > 0

\* C5: every relationship R held by the graph is returned by
\* get_outgoing(source(R)) and by get_incoming(target(R)), with and without
\* the filter type(R).
C5_AdjacencyComplete ==
    \A id \in DOMAIN relationships :
        LET R == relationships[id]
        IN  /\ R \in GetOutgoing(R.source, "")
            /\ R \in GetOutgoing(R.source, R.type)
            /\ R \in GetIncoming(R.target, "")
            /\ R \in GetIncoming(R.target, R.type)

\* Two relationships are held after one of them was re-added with another
\* source and target.
C5_Witness ==
    /\ RelationshipCount = 2
    /\ last.op = "AddRelationship"
    /\ last.had
    /\ last.old.source # last.arg.source
    /\ last.old.target # last.arg.target

\* C6: add_relationship(r) with an existing ID replaces the old relationship:
\* the ID is in the outgoing set of the new source only, in the incoming set of
\* the new target only and in the set of the new type only, the entries are
\* the new relationship, and the relationship count is unchanged.
C6_UpsertReplaces ==
    (last.op = "AddRelationship" /\ last.had) =>
        LET r == last.arg
        IN  /\ \A n \in NodeIDs :
                /\ (r.id \in DOMAIN outgoing[n]) <=> (n = r.source)
                /\ (r.id \in DOMAIN incoming[n]) <=> (n = r.target)
            /\ \A t \in AllRelTypes : (r.id \in DOMAIN byRelType[t]) <=> (t = r.type)
            /\ {q \in GetOutgoing(r.source, "") : q.id = r.id} = {r}
            /\ {q \in GetIncoming(r.target, "") : q.id = r.id} = {r}
            /\ {q \in GetRelationshipsByType(r.type) : q.id = r.id} = {r}
            /\ relationships[r.id] = r
            /\ RelationshipCount = last.cnt

\* A relationship was replaced by one with another source, target and type.
C6_Witness ==
    /\ last.op = "AddRelationship"
    /\ last.had
    /\ last.old.source # last.arg.source
    /\ last.old.target # last.arg.target
    /\ last.old.type # last.arg.type

\* The labels under which an ID is indexed.
IndexedLabels(id) == {l \in AllLabels : id \in DOMAIN byLabel[l]}

\* C7: after add_node with an existing ID and a different label exactly one
\* label-index entry exists for the ID: get_nodes_by_label(new) returns the
\* node, get_nodes_by_label(old) returns no node of that ID; and no ID is ever
\* indexed under two labels.
C7_LabelReassignment ==
    /\ \A id \in NodeIDs : Cardinality(IndexedLabels(id)) <= 1
    /\ (last.op = "AddNode" /\ last.old # "" /\ last.old # last.arg.label) =>
            /\ IndexedLabels(last.arg.id) = {last.arg.label}
            /\ last.arg \in GetNodesByLabel(last.arg.label)
            /\ \A n \in GetNodesByLabel(last.old) : n.id # last.arg.id

\* A node was re-added under another label.
C7_Witness ==
    /\ last.op = "AddNode"
    /\ last.old # ""
    /\ last.old # last.arg.label

\* C26: remove_nodes_by_file(path) removes exactly the nodes whose file
\* path equals path and every relationship with such a node as source or
\* target, leaves all other nodes and the relationships between other
\* nodes as they were, and returns the number of nodes removed.
C26_RemoveNodesByFileFrame ==
    [][last'.op = "RemoveNodesByFile" =>
        LET removed == {id \in DOMAIN nodes : nodes[id].filePath = last'.arg}
            kept == {r \in DOMAIN relationships :
                        /\ relationships[r].source \notin removed
                        /\ relationships[r].target \notin removed}
        IN  /\ nodes' = [x \in (DOMAIN nodes) \ removed |-> nodes[x]]
            /\ relationships' = [r \in kept |-> relationships[r]]
            /\ last'.ret = Cardinality(removed)]_vars

\* remove_nodes_by_file removed a node while another node and a
\* relationship are left.
C26_Witness ==
    /\ last.op = "RemoveNodesByFile"
    /\ last.ret >= 1
    /\ NodeCount > 0
    /\ RelationshipCount > 0

\* ------------------------------------------------------------------------
\* SpecConc: goroutines on one graph.  Every method takes g.mu first; between
\* Lock and Unlock each step is one access to one of the six maps.
\* ------------------------------------------------------------------------
\* sync.RWMutex.  Lock waits for the writer and all readers to leave, RLock
\* for the writer only.
RLock(p) ==
    /\ mu.writer = 0
    /\ mu' = [mu EXCEPT !.readers = @ \cup {p}]

\* Variant: a mutator takes the read lock.
LockShared(p) == RLock(p)

Lock(p) ==
    /\ mu.writer = 0
    /\ mu.readers = {}
    /\ mu' = [mu EXCEPT !.writer = p]

\* Unlock / RUnlock (deferred in every method).
Release(p) ==
    mu' = [writer |-> IF mu.writer = p THEN 0 ELSE mu.writer,
           readers |-> mu.readers \ {p}]

Goto(p, label) == pc' = [pc EXCEPT ![p] = label]

\* The nodes and relationships the goroutines pass in.
ConcNodes == {n \in GraphNode : n.filePath = "a.go"}

\* A goroutine enters a mutator: g.mu.Lock() with the argument fixed.
BeginWrite(p) ==
    /\ pc[p] = "idle"
    /\ Lock(p)
    /\ \/ \E node \in ConcNodes :
            /\ arg' = [arg EXCEPT ![p] = node]
            /\ Goto(p, "AddNode_clear")
       \/ \E nodeID \in NodeIDs :
            /\ arg' = [arg EXCEPT ![p] = nodeID]
            /\ Goto(p, "RemoveNode_nodes")
       \/ \E rel \in GraphRelationship :
            /\ arg' = [arg EXCEPT ![p] = rel]
            /\ Goto(p, "AddRel_clear")
    /\ UNCHANGED <<graphVars, concFrame, obs>>

\* AddNode, line by line.
AddNodeClear(p) ==
    /\ pc[p] = "AddNode_clear"
    /\ byLabel' = IF arg[p].id \in DOMAIN nodes /\ nodes[arg[p].id].label # arg[p].label
                  THEN [byLabel EXCEPT ![nodes[arg[p].id].label] = MapDel(@, arg[p].id)]
                  ELSE byLabel
    /\ Goto(p, "AddNode_nodes")
    /\ UNCHANGED <<nodes, relationships, byRelType, outgoing, incoming, concFrame, mu, arg, obs>>

AddNodePrimary(p) ==
    /\ pc[p] = "AddNode_nodes"
    /\ nodes' = MapPut(nodes, arg[p].id, arg[p])
    /\ Goto(p, "AddNode_byLabel")
    /\ UNCHANGED <<relationships, byLabel, byRelType, outgoing, incoming, concFrame, mu, arg, obs>>

AddNodeIndex(p) ==
    /\ pc[p] = "AddNode_byLabel"
    /\ byLabel' = [byLabel EXCEPT ![arg[p].label] = MapPut(@, arg[p].id, arg[p])]
    /\ Goto(p, "unlock")
    /\ UNCHANGED <<nodes, relationships, byRelType, outgoing, incoming, concFrame, mu, arg, obs>>

\* RemoveNode, line by line.  The node found at line 126 is kept in arg.
RemoveNodePrimary(p) ==
    /\ pc[p] = "RemoveNode_nodes"
    /\ IF arg[p] \notin DOMAIN nodes
       THEN /\ Goto(p, "unlock")
            /\ UNCHANGED <<nodes, arg>>
       ELSE /\ nodes' = MapDel(nodes, arg[p])
            /\ arg' = [arg EXCEPT ![p] = nodes[arg[p]]]
            /\ Goto(p, "RemoveNode_byLabel")
    /\ UNCHANGED <<relationships, byLabel, byRelType, outgoing, incoming, concFrame, mu, obs>>

RemoveNodeIndex(p) ==
    /\ pc[p] = "RemoveNode_byLabel"
    /\ byLabel' = [byLabel EXCEPT ![arg[p].label] = MapDel(@, arg[p].id)]
    /\ Goto(p, "RemoveNode_out")
    /\ UNCHANGED <<nodes, relationships, byRelType, outgoing, incoming, concFrame, mu, arg, obs>>

RemoveNodeCascadeOut(p) ==
    /\ pc[p] = "RemoveNode_out"
    /\ SetRelState(CascadeOutgoing(CurrentRelState, arg[p].id))
    /\ Goto(p, "RemoveNode_in")
    /\ UNCHANGED <<nodes, byLabel, concFrame, mu, arg, obs>>

RemoveNodeCascadeIn(p) ==
    /\ pc[p] = "RemoveNode_in"
    /\ SetRelState(CascadeIncoming(CurrentRelState, arg[p].id))
    /\ Goto(p, "unlock")
    /\ UNCHANGED <<nodes, byLabel, concFrame, mu, arg, obs>>

\* AddRelationship, line by line.
AddRelClear(p) ==
    /\ pc[p] = "AddRel_clear"
    /\ SetRelState(RemoveOldFromIndexes(CurrentRelState, arg[p].id))
    /\ Goto(p, "AddRel_relationships")
    /\ UNCHANGED <<nodes, byLabel, concFrame, mu, arg, obs>>

AddRelPrimary(p) ==
    /\ pc[p] = "AddRel_relationships"
    /\ relationships' = MapPut(relationships, arg[p].id, arg[p])
    /\ Goto(p, "AddRel_byRelType")
    /\ UNCHANGED <<nodes, byLabel, byRelType, outgoing, incoming, concFrame, mu, arg, obs>>

AddRelType(p) ==
    /\ pc[p] = "AddRel_byRelType"
    /\ byRelType' = [byRelType EXCEPT ![arg[p].type] = MapPut(@, arg[p].id, arg[p])]
    /\ Goto(p, "AddRel_outgoing")
    /\ UNCHANGED <<nodes, relationships, byLabel, outgoing, incoming, concFrame, mu, arg, obs>>

AddRelOutgoing(p) ==
    /\ pc[p] = "AddRel_outgoing"
    /\ outgoing' = [outgoing EXCEPT ![arg[p].source] = MapPut(@, arg[p].id, arg[p])]
    /\ Goto(p, "AddRel_incoming")
    /\ UNCHANGED <<nodes, relationships, byLabel, byRelType, incoming, concFrame, mu, arg, obs>>

AddRelIncoming(p) ==
    /\ pc[p] = "AddRel_incoming"
    /\ incoming' = [incoming EXCEPT ![arg[p].target] = MapPut(@, arg[p].id, arg[p])]
    /\ Goto(p, "unlock")
    /\ UNCHANGED <<nodes, relationships, byLabel, byRelType, outgoing, concFrame, mu, arg, obs>>

\* The deferred Unlock / RUnlock.
Unlock(p) ==
    /\ pc[p] \in {"unlock", "observed"}
    /\ Release(p)
    /\ pc' = [pc EXCEPT ![p] = "idle"]
    /\ arg' = [arg EXCEPT ![p] = 0]
    /\ UNCHANGED <<graphVars, concFrame, obs>>

\* IterNodes / IterRelationships: the snapshot taken under the read lock.
IterNodes == MapValues(nodes)

IterRelationships == MapValues(relationships)

\* What the read methods show of a node without its label-index entry or a
\* relationship without its adjacency entries.
SeesIndexOutOfStep ==
    \/ \E id \in NodeIDs : \E n \in GetNode(id) : n \notin GetNodesByLabel(n.label)
    \/ \E n \in IterNodes : n \notin GetNodesByLabel(n.label)
    \/ \E r \in IterRelationships :
            \/ r \notin GetOutgoing(r.source, "")
            \/ r \notin GetIncoming(r.target, "")

\* A goroutine enters a read method: g.mu.RLock().
BeginRead(p) ==
    /\ pc[p] = "idle"
    /\ RLock(p)
    /\ Goto(p, "reading")
    /\ UNCHANGED <<graphVars, concFrame, arg, obs>>

\* The read itself, under the read lock.
Read(p) ==
    /\ pc[p] = "reading"
    /\ obs' = [obs EXCEPT ![p] = obs[p] \/ SeesIndexOutOfStep]
    /\ Goto(p, "observed")
    /\ UNCHANGED <<graphVars, concFrame, mu, arg>>

InitConc ==
    /\ NewKnowledgeGraph
    /\ last = NoOp
    /\ ConcIdle
    /\ FreshStore
    /\ PipelineIdle
    /\ AuxIdle

NextConc ==
    \E p \in Procs :
        \/ BeginWrite(p)
        \/ AddNodeClear(p)
        \/ AddNodePrimary(p)
        \/ AddNodeIndex(p)
        \/ RemoveNodePrimary(p)
        \/ RemoveNodeIndex(p)
        \/ RemoveNodeCascadeOut(p)
        \/ RemoveNodeCascadeIn(p)
        \/ AddRelClear(p)
        \/ AddRelPrimary(p)
        \/ AddRelType(p)
        \/ AddRelOutgoing(p)
        \/ AddRelIncoming(p)
        \/ Unlock(p)
        \/ BeginRead(p)
        \/ Read(p)

SpecConc == InitConc /\ [][NextConc]_vars

\* C8: with concurrent readers and writers, no read ever observes a node that
\* is in the id-to-node map but not in its label index, or a relationship that
\* is in the id-to-relationship map but not in the outgoing index of its source
\* or the incoming index of its target; and whenever a goroutine holds the
\* read lock the indexes are in step.
C8_ReadersSeeIndexesInStep ==
    /\ \A p \in Procs : obs[p] = FALSE
    /\ (\E p \in Procs : pc[p] \in {"reading", "observed"}) => ~SeesIndexOutOfStep

\* All goroutines are inside read methods at once, one has finished its read,
\* on a graph that writers have filled with nodes and relationships.
C8_Witness ==
    /\ \A p \in Procs : pc[p] \in {"reading", "observed"}
    /\ \E p \in Procs : pc[p] = "observed"
    /\ NodeCount > 0
    /\ RelationshipCount = MaxRelID

\* ------------------------------------------------------------------------
\* BadgerBackend: tokenizer and in-memory FTS index
\* ------------------------------------------------------------------------
UpperLetters ==
    <<"A", "B", "C", "D", "E", "F", "G", "H", "I", "J", "K", "L", "M",
      "N", "O", "P", "Q", "R", "S", "T", "U", "V", "W", "X", "Y", "Z">>

LowerLetters ==
    <<"a", "b", "c", "d", "e", "f", "g", "h", "i", "j", "k", "l", "m",
      "n", "o", "p", "q", "r", "s", "t", "u", "v", "w", "x", "y", "z">>

Digits == {"0", "1", "2", "3", "4", "5", "6", "7", "8", "9"}

\* strings.ToLower, character by character.
ToLowerChar(c) ==
    IF \E i \in DOMAIN UpperLetters : UpperLetters[i] = c
    THEN LowerLetters[CHOOSE i \in DOMAIN UpperLetters : UpperLetters[i] = c]
    ELSE c

ToLower(text) == [i \in DOMAIN text |-> ToLowerChar(text[i])]

\* The characters the FieldsFunc callback keeps: a-z and 0-9.
IsTokenChar(c) ==
    \/ \E i \in DOMAIN LowerLetters : LowerLetters[i] = c
    \/ c \in Digits

\* strings.FieldsFunc: the maximal runs of kept characters, in order.
RECURSIVE FieldsFunc(_, _, _)
FieldsFunc(text, cur, acc) ==
    IF text = <<>>
    THEN IF cur = <<>> THEN acc ELSE Append(acc, cur)
    ELSE IF IsTokenChar(Head(text))
         THEN FieldsFunc(Tail(text), Append(cur, Head(text)), acc)
         ELSE FieldsFunc(Tail(text), <<>>, IF cur = <<>> THEN acc ELSE Append(acc, cur))

tokenizeForFTS(text) ==
    SelectSeq(FieldsFunc(ToLower(text), <<>>, <<>>), LAMBDA t : Len(t) >= 2)

\* b.ftsIndex[token] = append(b.ftsIndex[token], id).  A posting list is kept
\* as id -> number of occurrences: no reader looks at the order of the slice.
PostingAdd(idx, token, id) ==
    LET cur == IF token \in DOMAIN idx THEN idx[token] ELSE EmptyMap
        n == IF id \in DOMAIN cur THEN cur[id] ELSE 0
    IN  MapPut(idx, token, MapPut(cur, id, n + 1))

RECURSIVE IndexTokens(_, _, _)
IndexTokens(idx, tokens, id) ==
    IF tokens = <<>>
    THEN idx
    ELSE IndexTokens(PostingAdd(idx, Head(tokens), id), Tail(tokens), id)

\* indexNodeForFTS: the tokens of the name (Content and Signature are empty
\* and skipped by their len() > 0 guards).
indexNodeForFTS(idx, node) == IndexTokens(idx, tokenizeForFTS(node.name), node.id)

\* indexNodeForFTS over every value of a node map.
RECURSIVE IndexAllNodes(_, _, _)
IndexAllNodes(idx, nodeMap, ids) ==
    IF ids = {}
    THEN idx
    ELSE LET id == CHOOSE x \in ids : TRUE
         IN  IndexAllNodes(indexNodeForFTS(idx, nodeMap[id]), nodeMap, ids \ {id})

\* ------------------------------------------------------------------------
\* BadgerBackend: reads
\* ------------------------------------------------------------------------
BadgerGetNode(nodeID) == IF nodeID \in DOMAIN kvNode THEN {kvNode[nodeID]} ELSE {}

BadgerGetNodesByLabel(label) == {n \in MapValues(kvNode) : n.label = label}

BadgerNodeCount == nodeCount

BadgerRelationshipCount == relationshipCount

\* GetCallers: the "i:in:<id>:calls" prefix; each entry's relationship is
\* fetched, then its source node; a missing relationship or node is skipped.
GetCallers(nodeID) ==
    {kvNode[kvRel[k[3]].source] :
        k \in {e \in kvIn : /\ e[1] = nodeID
                            /\ e[2] = "calls"
                            /\ e[3] \in DOMAIN kvRel
                            /\ kvRel[e[3]].source \in DOMAIN kvNode}}

GetCallees(nodeID) ==
    {kvNode[kvRel[k[3]].target] :
        k \in {e \in kvOut : /\ e[1] = nodeID
                             /\ e[2] = "calls"
                             /\ e[3] \in DOMAIN kvRel
                             /\ kvRel[e[3]].target \in DOMAIN kvNode}}

\* FTSSearch, the scoring loop: nodeIDSet[id]++ per posting of each query token.
RECURSIVE ScoreTokens(_, _)
ScoreTokens(tokens, acc) ==
    IF tokens = <<>>
    THEN acc
    ELSE LET post == IF Head(tokens) \in DOMAIN ftsIndex
                     THEN ftsIndex[Head(tokens)] ELSE EmptyMap
             next == [id \in (DOMAIN acc) \cup (DOMAIN post) |->
                        (IF id \in DOMAIN acc THEN acc[id] ELSE 0)
                        + (IF id \in DOMAIN post THEN post[id] ELSE 0)]
         IN  ScoreTokens(Tail(tokens), next)

FTSScores(query) == ScoreTokens(tokenizeForFTS(query), EmptyMap)

\* The scored IDs whose node getNode finds.
FTSHits(query) == {id \in DOMAIN FTSScores(query) : id \in DOMAIN kvNode}

\* FTSSearch: the sets of node IDs it may return.  The scored IDs are visited
\* in map order; a found node is appended, then the loop stops once
\* len(results) >= limit.
FTSSearch(query, limit) ==
    LET hits == FTSHits(query)
        cut == IF limit < 1 THEN 1 ELSE limit
        n == IF Cardinality(hits) < cut THEN Cardinality(hits) ELSE cut
    IN  {S \in SUBSET hits : Cardinality(S) = n}

\* ------------------------------------------------------------------------
\* BadgerBackend: writes.  ok = FALSE stands for the transaction's Commit (the
\* write batch's Flush) returning an error: nothing of it reaches the database.
\* ------------------------------------------------------------------------
\* txn.Set for every entry of m.
PutAll(kv, m) ==
    [x \in (DOMAIN kv) \cup (DOMAIN m) |-> IF x \in DOMAIN m THEN m[x] ELSE kv[x]]

\* The entries a batch (a slice of nodes or relationships) sets, by ID: a later
\* element overwrites an earlier one with the same ID.
RECURSIVE BatchMap(_, _)
BatchMap(batch, acc) ==
    IF batch = <<>>
    THEN acc
    ELSE BatchMap(Tail(batch), MapPut(acc, Head(batch).id, Head(batch)))

\* indexRelationship / indexRelationshipWB: the two adjacency keys of rel.
OutKey(rel) == <<rel.source, rel.type, rel.id>>

InKey(rel) == <<rel.target, rel.type, rel.id>>

StoreCall(name, ok, nodeMap, relMap) ==
    /\ slast' = [op |-> name, ok |-> ok, nodes |-> nodeMap, rels |-> relMap,
                 before |-> kvRel]
    /\ storeOps' = storeOps + 1

\* BulkLoad: the counters and the FTS index are reset and rebuilt from g while
\* the batch is filled; the batch only sets keys, it deletes none.
BulkLoad(gNodes, gRels, ok) ==
    /\ nodeCount' = Cardinality(DOMAIN gNodes)
    /\ relationshipCount' = Cardinality(DOMAIN gRels)
    /\ ftsIndex' = IndexAllNodes(EmptyMap, gNodes, DOMAIN gNodes)
    /\ IF ok
       THEN /\ kvNode' = PutAll(kvNode, gNodes)
            /\ kvRel' = PutAll(kvRel, gRels)
            /\ kvOut' = kvOut \cup {OutKey(r) : r \in MapValues(gRels)}
            /\ kvIn' = kvIn \cup {InKey(r) : r \in MapValues(gRels)}
       ELSE UNCHANGED <<kvNode, kvRel, kvOut, kvIn>>
    /\ UNCHANGED kvEmb
    /\ StoreCall("BulkLoad", ok, gNodes, gRels)

\* AddNodes: one transaction setting the node keys.
AddNodes(batch, ok) ==
    /\ kvNode' = IF ok THEN PutAll(kvNode, BatchMap(batch, EmptyMap)) ELSE kvNode
    /\ UNCHANGED <<kvRel, kvOut, kvIn, kvEmb, nodeCount, relationshipCount, ftsIndex>>
    /\ StoreCall("AddNodes", ok, BatchMap(batch, EmptyMap), EmptyMap)

\* AddRelationships: one transaction setting the relationship keys and, for
\* every element of the batch, its two adjacency keys.
AddRelationships(batch, ok) ==
    /\ IF ok
       THEN /\ kvRel' = PutAll(kvRel, BatchMap(batch, EmptyMap))
            /\ kvOut' = kvOut \cup {OutKey(batch[i]) : i \in DOMAIN batch}
            /\ kvIn' = kvIn \cup {InKey(batch[i]) : i \in DOMAIN batch}
       ELSE UNCHANGED <<kvRel, kvOut, kvIn>>
    /\ UNCHANGED <<kvNode, kvEmb, nodeCount, relationshipCount, ftsIndex>>
    /\ StoreCall("AddRelationships", ok, EmptyMap, BatchMap(batch, EmptyMap))

\* RemoveNodesByFile: the node keys of the file are deleted, and the
\* relationship keys named by the "calls" adjacency entries of those nodes;
\* the adjacency keys, the counters and the FTS index stay.
BadgerRemoveNodesByFile(filePath, ok) ==
    LET ids == {id \in DOMAIN kvNode : kvNode[id].filePath = filePath}
        relIDs == {k[3] : k \in {e \in kvIn \cup kvOut : e[1] \in ids /\ e[2] = "calls"}}
    IN  /\ IF ok
           THEN /\ kvNode' = [x \in (DOMAIN kvNode) \ ids |-> kvNode[x]]
                /\ kvRel' = [x \in (DOMAIN kvRel) \ relIDs |-> kvRel[x]]
           ELSE UNCHANGED <<kvNode, kvRel>>
        /\ UNCHANGED <<kvOut, kvIn, kvEmb, nodeCount, relationshipCount, ftsIndex>>
        /\ StoreCall("RemoveNodesByFile", ok,
                     [x \in ids |-> kvNode[x]], EmptyMap)

\* StoreEmbeddings: one transaction setting an "e:" key per embedding.
StoreEmbeddings(embeddings, ok) ==
    /\ kvEmb' = IF ok THEN PutAll(kvEmb, embeddings) ELSE kvEmb
    /\ UNCHANGED <<kvNode, kvRel, kvOut, kvIn, nodeCount, relationshipCount, ftsIndex>>
    /\ StoreCall("StoreEmbeddings", ok, EmptyMap, EmptyMap)

\* Close, then Initialize on the same path: rebuildFTSIndexFromDB recounts
\* the "n:" and "r:" keys and re-indexes every stored node.
Reopen ==
    /\ nodeCount' = Cardinality(DOMAIN kvNode)
    /\ relationshipCount' = Cardinality(DOMAIN kvRel)
    /\ ftsIndex' = IndexAllNodes(EmptyMap, kvNode, DOMAIN kvNode)
    /\ UNCHANGED <<kvNode, kvRel, kvOut, kvIn, kvEmb>>
    /\ StoreCall("Initialize", TRUE, EmptyMap, EmptyMap)

\* ------------------------------------------------------------------------
\* SpecStore: any sequence of at most MaxStoreOps calls on one store
\* ------------------------------------------------------------------------
\* The file a caller gives the node with a given ID.
FileOf(id) == IF id % 2 = 1 THEN "a.go" ELSE "b.go"

StoreNodes == {n \in GraphNode : n.filePath = FileOf(n.id)}

\* Node maps id -> node, as g.nodes holds them.
NodeMaps ==
    UNION {{m \in [ids -> StoreNodes] : \A i \in ids : m[i].id = i} : ids \in SUBSET NodeIDs}

RelMaps ==
    UNION {{m \in [ids -> GraphRelationship] : \A i \in ids : m[i].id = i} :
            ids \in {x \in SUBSET RelIDs : Cardinality(x) <= MaxLoadRels}}

Batches(S) == UNION {[1..n -> S] : n \in 1..MaxBatch}

Vectors == {<<1, 0>>}

InitStore ==
    /\ NewKnowledgeGraph
    /\ last = NoOp
    /\ ConcIdle
    /\ FreshStore
    /\ PipelineIdle
    /\ AuxIdle

storeFrame == <<graphVars, last, concVars, pipeVars, auxVars>>

DoBulkLoad ==
    /\ storeOps < MaxStoreOps
    /\ \E gNodes \in NodeMaps, gRels \in RelMaps, ok \in BOOLEAN : BulkLoad(gNodes, gRels, ok)
    /\ UNCHANGED storeFrame

DoAddNodes ==
    /\ storeOps < MaxStoreOps
    /\ \E batch \in Batches(StoreNodes), ok \in BOOLEAN : AddNodes(batch, ok)
    /\ UNCHANGED storeFrame

DoAddRelationships ==
    /\ storeOps < MaxStoreOps
    /\ \E batch \in Batches(GraphRelationship), ok \in BOOLEAN : AddRelationships(batch, ok)
    /\ UNCHANGED storeFrame

DoBadgerRemoveNodesByFile ==
    /\ storeOps < MaxStoreOps
    /\ \E filePath \in FilePaths, ok \in BOOLEAN : BadgerRemoveNodesByFile(filePath, ok)
    /\ UNCHANGED storeFrame

DoStoreEmbeddings ==
    /\ storeOps < MaxStoreOps
    /\ \E ids \in SUBSET NodeIDs, ok \in BOOLEAN :
            \E embeddings \in [ids -> Vectors] : StoreEmbeddings(embeddings, ok)
    /\ UNCHANGED storeFrame

DoReopen ==
    /\ storeOps < MaxStoreOps
    /\ Reopen
    /\ UNCHANGED storeFrame

NextStore ==
    \/ DoBulkLoad
    \/ DoAddNodes
    \/ DoAddRelationships
    \/ DoBadgerRemoveNodesByFile
    \/ DoStoreEmbeddings
    \/ DoReopen

SpecStore == InitStore /\ [][NextStore]_vars

\* ------------------------------------------------------------------------
\* Properties of the store
\* ------------------------------------------------------------------------
\* The tokens of a node's name, as a set.
NameTokens(node) ==
    {tokenizeForFTS(node.name)[i] : i \in DOMAIN tokenizeForFTS(node.name)}

\* C9: after add_nodes(ns) has returned successfully, the reads that follow in
\* the same process observe every added node: get_node returns it,
\* get_nodes_by_label returns it under its label, node_count() is at least the
\* number of added nodes, and fts_search for any token of its name (with a
\* limit that cuts nothing off) returns it.
C9_AddNodesObserved ==
    (slast.op = "AddNodes" /\ slast.ok) =>
        /\ BadgerNodeCount >= Cardinality(DOMAIN slast.nodes)
        /\ \A id \in DOMAIN slast.nodes :
            /\ BadgerGetNode(id) = {slast.nodes[id]}
            /\ slast.nodes[id] \in BadgerGetNodesByLabel(slast.nodes[id].label)
            /\ \A token \in NameTokens(slast.nodes[id]) :
                    \A result \in FTSSearch(token, MaxNodeID) : id \in result

\* C10: after BulkLoad(g) has returned successfully the store holds g and
\* nothing else: every node of g is readable, and no read returns a node that
\* is absent from g or follows a stored relationship that is absent from g.
C10_BulkLoadReplaces ==
    (slast.op = "BulkLoad" /\ slast.ok) =>
        /\ \A id \in DOMAIN slast.nodes : BadgerGetNode(id) = {slast.nodes[id]}
        /\ \A id \in NodeIDs \ DOMAIN slast.nodes : BadgerGetNode(id) = {}
        /\ \A label \in AllLabels : BadgerGetNodesByLabel(label) \subseteq MapValues(slast.nodes)
        /\ \A id \in NodeIDs :
            /\ GetCallers(id) \subseteq
                 {slast.nodes[r.source] : r \in {x \in MapValues(slast.rels) :
                        x.target = id /\ x.type = "calls" /\ x.source \in DOMAIN slast.nodes}}
            /\ GetCallees(id) \subseteq
                 {slast.nodes[r.target] : r \in {x \in MapValues(slast.rels) :
                        x.source = id /\ x.type = "calls" /\ x.target \in DOMAIN slast.nodes}}

\* ------------------------------------------------------------------------
\* RunPipeline.  The repositories walked here hold up to two top-level files
\* in which the parsers find no symbol and have no git history: on them
\* ProcessStructure adds one file node per entry, and the phases after it add
\* no node and no relationship to g.
\* ------------------------------------------------------------------------
\* The phase numbers of the "Pipeline Phases" table, by the name used here for
\* the phase ("Phase N" in the comments of RunPipeline).
PhaseNumber ==
    [walk |-> 1, structure |-> 2, parsing |-> 3, imports |-> 4, calls |-> 5,
     heritage |-> 6, types |-> 7, communities |-> 8, processes |-> 9,
     deadcode |-> 10, coupling |-> 11, embeddings |-> 12]

PhaseNames == DOMAIN PhaseNumber

\* What WalkRepo may return: the files in the order filepath.WalkDir visits them.
Repos == {<<>>, <<"a.go">>, <<"b.go">>, <<"a.go", "b.go">>}

\* GenerateID(NodeFile, path, "").
FileID(path) == CHOOSE i \in NodeIDs : FileOf(i) = path

\* filepath.Base(entry.RelPath).
BaseName(path) ==
    IF path = "a.go" THEN <<"a", ".", "g", "o">> ELSE <<"b", ".", "g", "o">>

\* The file node ProcessStructure builds for an entry.
FileNode(path) ==
    [id |-> FileID(path), label |-> "file", filePath |-> path, name |-> BaseName(path)]

\* embedder.EmbedNodes: one vector per node (the values are not looked at).
EmbedNodes(nodeMap) == [id \in DOMAIN nodeMap |-> CHOOSE v \in Vectors : TRUE]

pipeFrame == <<concVars, auxVars>>

\* progress(name, 0.0): the phase starts.
BeginPhase(name) ==
    /\ ppc = name
    /\ running = ""
    /\ running' = name
    /\ plog' = Append(plog, name)
    /\ UNCHANGED <<ppc, pin, todo, cancelled, pret, psnap, runs>>

\* progress(name, 1.0): the phase is over, the next one is reached.
EndPhase(name, next) ==
    /\ ppc = name
    /\ running = name
    /\ running' = ""
    /\ ppc' = next
    /\ UNCHANGED <<plog, pin, todo, cancelled, pret, psnap, runs>>

\* A phase that adds nothing to g on the repositories above.
Phase(name, next) ==
    /\ \/ BeginPhase(name)
       \/ EndPhase(name, next)
    /\ UNCHANGED <<graphVars, last, storeVars, pipeFrame>>

\* A call of RunPipeline(ctx, repoPath, store, full, progress, embeddings).
RunPipeline ==
    /\ ppc \in {"idle", "done"}
    /\ runs < MaxRuns
    /\ \E entries \in Repos, embeddings \in BOOLEAN, hasStore \in BOOLEAN :
            pin' = [entries |-> entries, embeddings |-> embeddings, hasStore |-> hasStore]
    /\ ppc' = "walk"
    /\ running' = ""
    /\ plog' = <<>>
    /\ todo' = <<>>
    /\ cancelled' = NotCancelled
    /\ pret' = "none"
    /\ psnap' = StoreContents
    /\ runs' = runs + 1
    /\ UNCHANGED <<graphVars, last, storeVars, pipeFrame>>

\* Phase 1, then g := graph.NewKnowledgeGraph().
WalkRepo ==
    /\ ppc = "walk"
    /\ \/ /\ BeginPhase("walk")
          /\ UNCHANGED <<graphVars, last>>
       \/ /\ running = "walk"
          /\ running' = ""
          /\ \E ok \in BOOLEAN :
                IF ok
                THEN /\ ppc' = "structure"
                     /\ todo' = pin.entries
                     /\ nodes' = EmptyMap
                     /\ relationships' = EmptyMap
                     /\ byLabel' = [l \in AllLabels |-> EmptyMap]
                     /\ byRelType' = [t \in AllRelTypes |-> EmptyMap]
                     /\ outgoing' = [n \in NodeIDs |-> EmptyMap]
                     /\ incoming' = [n \in NodeIDs |-> EmptyMap]
                     /\ last' = NoOp
                     /\ UNCHANGED pret
                ELSE /\ ppc' = "done"
                     /\ pret' = "err_walk"
                     /\ UNCHANGED <<todo, graphVars, last>>
          /\ UNCHANGED <<plog, pin, cancelled, psnap, runs>>
    /\ UNCHANGED <<storeVars, pipeFrame>>

\* Phase 2: g.AddNode(fileNode) for every entry.
ProcessStructure ==
    /\ ppc = "structure"
    /\ \/ /\ BeginPhase("structure")
          /\ UNCHANGED <<graphVars, last>>
       \/ /\ running = "structure"
          /\ todo # <<>>
          /\ AddNode(FileNode(Head(todo)))
          /\ todo' = Tail(todo)
          /\ UNCHANGED <<ppc, running, plog, pin, cancelled, pret, psnap, runs>>
       \/ /\ todo = <<>>
          /\ EndPhase("structure", "parsing")
          /\ UNCHANGED <<graphVars, last>>
    /\ UNCHANGED <<storeVars, pipeFrame>>

ProcessParsing ==
    /\ ppc = "parsing"
    /\ Phase("parsing", "imports")

ProcessImports ==
    /\ ppc = "imports"
    /\ Phase("imports", "calls")

ProcessCalls ==
    /\ ppc = "calls"
    /\ Phase("calls", "heritage")

ProcessHeritage ==
    /\ ppc = "heritage"
    /\ Phase("heritage", "types")

ProcessTypes ==
    /\ ppc = "types"
    /\ Phase("types", "processes")

ProcessProcesses ==
    /\ ppc = "processes"
    /\ Phase("processes", "communities")

DetectCommunities ==
    /\ ppc = "communities"
    /\ Phase("communities", "coupling")

ProcessCoupling ==
    /\ ppc = "coupling"
    /\ Phase("coupling", "deadcode")

ProcessDeadCode ==
    /\ ppc = "deadcode"
    /\ Phase("deadcode", "embeddings")

\* Phase 12, run only if embeddings is set: nothing to do for a graph without
\* nodes; otherwise store.StoreEmbeddings, whose error is only printed.  On a
\* nil store that call is a nil-pointer panic.
GenerateAndStoreEmbeddings ==
    /\ ppc = "embeddings"
    /\ \/ /\ ~pin.embeddings
          /\ ppc' = "load"
          /\ UNCHANGED <<running, plog, pin, todo, cancelled, pret, psnap, runs, storeVars>>
       \/ /\ pin.embeddings
          /\ BeginPhase("embeddings")
          /\ UNCHANGED storeVars
       \/ /\ pin.embeddings
          /\ DOMAIN nodes = {}
          /\ EndPhase("embeddings", "load")
          /\ UNCHANGED storeVars
       \/ /\ pin.embeddings
          /\ DOMAIN nodes # {}
          /\ ~pin.hasStore
          /\ running = "embeddings"
          /\ running' = ""
          /\ ppc' = "done"
          /\ pret' = "panic"
          /\ UNCHANGED <<plog, pin, todo, cancelled, psnap, runs, storeVars>>
       \/ /\ pin.embeddings
          /\ DOMAIN nodes # {}
          /\ pin.hasStore
          /\ EndPhase("embeddings", "load")
          /\ \E ok \in BOOLEAN : StoreEmbeddings(EmbedNodes(nodes), ok)
    /\ UNCHANGED <<graphVars, last, pipeFrame>>

\* "Loading to storage": store.BulkLoad(ctx, g) if a store was given; its
\* error is the error of RunPipeline.
LoadToStorage ==
    /\ ppc = "load"
    /\ \/ /\ ~pin.hasStore
          /\ ppc' = "done"
          /\ pret' = "ok"
          /\ UNCHANGED <<running, storeVars>>
       \/ /\ pin.hasStore
          /\ running = ""
          /\ running' = "load"
          /\ UNCHANGED <<ppc, pret, storeVars>>
       \/ /\ pin.hasStore
          /\ running = "load"
          /\ running' = ""
          /\ ppc' = "done"
          /\ \E ok \in BOOLEAN :
                /\ BulkLoad(nodes, relationships, ok)
                /\ pret' = IF ok THEN "ok" ELSE "err_bulk"
    /\ UNCHANGED <<plog, pin, todo, cancelled, psnap, runs>>
    /\ UNCHANGED <<graphVars, last, pipeFrame>>

\* The caller cancels ctx while RunPipeline runs.  No statement of RunPipeline
\* or of a phase reads ctx, and BulkLoad and StoreEmbeddings ignore theirs.
Cancel ==
    /\ ppc \notin {"idle", "done"}
    /\ ~cancelled.done
    /\ cancelled' = [done |-> TRUE, during |-> running, started |-> Len(plog),
                     store |-> StoreContents]
    /\ UNCHANGED <<ppc, running, plog, pin, todo, pret, psnap, runs>>
    /\ UNCHANGED <<graphVars, last, storeVars, pipeFrame>>

InitPipeline ==
    /\ NewKnowledgeGraph
    /\ last = NoOp
    /\ ConcIdle
    /\ FreshStore
    /\ PipelineIdle
    /\ AuxIdle

NextPipeline ==
    \/ RunPipeline
    \/ WalkRepo
    \/ ProcessStructure
    \/ ProcessParsing
    \/ ProcessImports
    \/ ProcessCalls
    \/ ProcessHeritage
    \/ ProcessTypes
    \/ ProcessProcesses
    \/ DetectCommunities
    \/ ProcessCoupling
    \/ ProcessDeadCode
    \/ GenerateAndStoreEmbeddings
    \/ LoadToStorage
    \/ Cancel

SpecPipeline == InitPipeline /\ [][NextPipeline]_vars

\* ------------------------------------------------------------------------
\* Properties of RunPipeline
\* ------------------------------------------------------------------------
\* C1: the phases of a run start in strictly increasing numeric order (a phase
\* starts only when none is in progress, so each one has finished before the
\* next starts); in particular Communities (8) never starts after Processes
\* (9) and Dead code (10) never starts after Git coupling (11).
C1_PhasesInNumericOrder ==
    \A i \in DOMAIN plog : \A j \in DOMAIN plog :
        i < j => PhaseNumber[plog[i]] < PhaseNumber[plog[j]]

\* C2: during a run the store is written only by the final BulkLoad: until a
\* run has returned successfully the contents of the store are those it had
\* when the run started.
C2_StoreWrittenOnlyByBulkLoad ==
    (ppc # "idle" /\ pret # "ok") => StoreContents = psnap

\* C3: a run whose ctx was cancelled while a phase was in progress aborts: it
\* returns an error and not success (the code has one error per failing step;
\* any of them is accepted here as the error of the aborted run), it starts no
\* phase after the cancellation and it leaves the store as it was at the
\* cancellation.
C3_CancellationAborts ==
    (ppc = "done" /\ cancelled.done /\ cancelled.during \in PhaseNames) =>
        /\ pret # "ok"
        /\ Len(plog) = cancelled.started
        /\ StoreContents = cancelled.store

\* C11: after a relationship is stored again under an existing ID with another
\* target (source), by AddRelationships or BulkLoad, GetCallers of the old
\* target no longer returns its source, and GetCallees of the old source no
\* longer returns its target, unless another stored calls relationship still
\* joins the two.
C11_ReinsertUpdatesAdjacency ==
    (slast.op \in {"AddRelationships", "BulkLoad"} /\ slast.ok) =>
        \A id \in (DOMAIN slast.rels) \cap (DOMAIN slast.before) :
            LET old == slast.before[id]
                new == kvRel[id]
                joined(src, tgt) ==
                    \E r \in MapValues(kvRel) :
                        r.type = "calls" /\ r.source = src /\ r.target = tgt
            IN  /\ (old.target # new.target /\ ~joined(new.source, old.target)) =>
                        BadgerGetNode(new.source) \cap GetCallers(old.target) = {}
                /\ (old.source # new.source /\ ~joined(old.source, new.target)) =>
                        BadgerGetNode(new.target) \cap GetCallees(old.source) = {}

\* ------------------------------------------------------------------------
\* FTSSearch: the result list
\* ------------------------------------------------------------------------
\* The orders in which a set of IDs can stand in a slice.
Perms(S) ==
    {seq \in [1..Cardinality(S) -> S] :
        \A i \in DOMAIN seq : \A j \in DOMAIN seq : i # j => seq[i] # seq[j]}

\* FTSSearch: the result lists it may return.  The collected results are
\* sorted by sort.Slice with Score descending; results of equal score stand in
\* any order.
FTSSearchRanked(query, limit) ==
    UNION {{seq \in Perms(S) :
                \A i \in DOMAIN seq : \A j \in DOMAIN seq :
                    i < j => FTSScores(query)[seq[i]] >= FTSScores(query)[seq[j]]} :
            S \in FTSSearch(query, limit)}

\* Query texts a caller searches for.
Queries ==
    {<<"f", "o", "o">>,
     <<"B", "a", "r">>,
     <<"b", "a", "r", " ", "b", "a", "r", " ", "f", "o", "o">>}

Limits == 1..MaxLimit

SeqRange(seq) == {seq[i] : i \in DOMAIN seq}

\* C12: FTSSearch(query, limit), limit >= 1, returns at most limit results in
\* non-increasing score order, and no matching node that is left out has a
\* strictly higher score than one that is returned.
C12_FTSTopResults ==
    \A query \in Queries : \A limit \in Limits :
        \A res \in FTSSearchRanked(query, limit) :
            /\ Len(res) <= limit
            /\ \A i \in DOMAIN res : \A j \in DOMAIN res :
                    i < j => FTSScores(query)[res[i]] >= FTSScores(query)[res[j]]
            /\ \A a \in FTSHits(query) \ SeqRange(res) : \A b \in SeqRange(res) :
                    FTSScores(query)[a] <= FTSScores(query)[b]

\* ------------------------------------------------------------------------
\* SpecSearch: a store that is loaded with the nodes of the search scenario
\* (UserService, parseUser, helper; Content and Signature empty) and searched
\* ------------------------------------------------------------------------
SearchNodeIDs == 1..MaxSearchNodes

SearchNames ==
    << <<"U", "s", "e", "r", "S", "e", "r", "v", "i", "c", "e">>,
       <<"p", "a", "r", "s", "e", "U", "s", "e", "r">>,
       <<"h", "e", "l", "p", "e", "r">> >>

SearchName(id) == SearchNames[((id - 1) % Len(SearchNames)) + 1]

SearchNodes ==
    {[id |-> i, label |-> l, filePath |-> FileOf(i), name |-> SearchName(i)] :
        i \in SearchNodeIDs, l \in Labels}

SearchNodeMaps ==
    UNION {{m \in [ids -> SearchNodes] : \A i \in ids : m[i].id = i} :
            ids \in SUBSET SearchNodeIDs}

DoSearchBulkLoad ==
    /\ storeOps < MaxStoreOps
    /\ \E gNodes \in SearchNodeMaps, ok \in BOOLEAN : BulkLoad(gNodes, EmptyMap, ok)
    /\ UNCHANGED storeFrame

DoSearchAddNodes ==
    /\ storeOps < MaxStoreOps
    /\ \E batch \in Batches(SearchNodes), ok \in BOOLEAN : AddNodes(batch, ok)
    /\ UNCHANGED storeFrame

DoSearchReopen ==
    /\ storeOps < MaxStoreOps
    /\ Reopen
    /\ UNCHANGED storeFrame

NextSearch ==
    \/ DoSearchBulkLoad
    \/ DoSearchAddNodes
    \/ DoSearchReopen

SpecSearch == InitStore /\ [][NextSearch]_vars

QueryUser == <<"u", "s", "e", "r">>

\* C13: once UserService (node 1), parseUser (node 2) and helper (node 3) have
\* been loaded into the store, FTSSearch for "user" (with a limit that cuts
\* nothing off) returns nodes 1 and 2 and does not return node 3.
C13_CamelCaseSearch ==
    (slast.op = "BulkLoad" /\ slast.ok /\ {1, 2, 3} \subseteq DOMAIN slast.nodes) =>
        \A res \in FTSSearch(QueryUser, MaxSearchNodes) :
            /\ 1 \in res
            /\ 2 \in res
            /\ 3 \notin res

\* ------------------------------------------------------------------------
\* BadgerBackend.Traverse
\* ------------------------------------------------------------------------
\* The entries of an adjacency prefix in key order (the relationship ID is
\* the last part of the key).
RECURSIVE KeysInOrder(_)
KeysInOrder(S) ==
    IF S = {}
    THEN <<>>
    ELSE LET k == CHOOSE e \in S : \A f \in S : e[3] <= f[3]
         IN  <<k>> \o KeysInOrder(S \ {k})

\* GetCallers / GetCallees as the slice they return: one node per adjacency
\* entry whose relationship and end node are found, in key order.
Neighbors(nodeID, direction) ==
    LET keys == KeysInOrder({e \in (IF direction = "callers" THEN kvIn ELSE kvOut) :
                                e[1] = nodeID /\ e[2] = "calls"})
        end(k) == IF direction = "callers" THEN kvRel[k[3]].source ELSE kvRel[k[3]].target
        found == SelectSeq(keys, LAMBDA k : k[3] \in DOMAIN kvRel /\ end(k) \in DOMAIN kvNode)
    IN  [i \in DOMAIN found |-> kvNode[end(found[i])]]

\* The for loop of Traverse: queue of <<nodeID, depth>>, visited set, result.
RECURSIVE TraverseLoop(_, _, _, _, _, _)
TraverseLoop(queue, visited, result, startID, depth, direction) ==
    IF queue = <<>>
    THEN result
    ELSE LET current == Head(queue)
             rest == Tail(queue)
         IN  IF current[1] \in visited
             THEN TraverseLoop(rest, visited, result, startID, depth, direction)
             ELSE LET seen == visited \cup {current[1]}
                      res == IF current[1] # startID /\ current[1] \in DOMAIN kvNode
                             THEN Append(result, kvNode[current[1]])
                             ELSE result
                      nbrs == Neighbors(current[1], direction)
                      fresh == SelectSeq(nbrs, LAMBDA n : n.id \notin seen)
                      more == IF current[2] < depth
                              THEN [i \in DOMAIN fresh |-> <<fresh[i].id, current[2] + 1>>]
                              ELSE <<>>
                  IN  TraverseLoop(rest \o more, seen, res, startID, depth, direction)

Traverse(startID, depth, direction) ==
    TraverseLoop(<< <<startID, 0>> >>, {}, <<>>, startID,
                 IF depth > DepthLimit THEN DepthLimit ELSE depth, direction)

\* ------------------------------------------------------------------------
\* Properties of Traverse
\* ------------------------------------------------------------------------
\* The stored calls relationships as steps between nodes, in a direction; a
\* step ends at a stored node.
CallSteps(direction) ==
    {IF direction = "callers" THEN <<r.target, r.source>> ELSE <<r.source, r.target>> :
        r \in {x \in MapValues(kvRel) :
                /\ x.type = "calls"
                /\ (IF direction = "callers" THEN x.source ELSE x.target) \in DOMAIN kvNode}}

\* The nodes at 1..k steps from the nodes of S.
RECURSIVE WithinSteps(_, _, _)
WithinSteps(S, k, direction) ==
    IF k = 0
    THEN {}
    ELSE LET next == {e[2] : e \in {x \in CallSteps(direction) : x[1] \in S}}
         IN  next \cup WithinSteps(next, k - 1, direction)

Depths == (0..MaxDepth) \cup {DepthLimit + 1}

Directions == {"callers", "callees"}

\* C14: Traverse(start, depth, direction) returns exactly the stored nodes
\* whose distance from start along stored calls relationships in the given
\* direction is between 1 and min(depth, 10), each once, and never start.
C14_TraverseBFS ==
    \A startID \in NodeIDs : \A depth \in Depths : \A direction \in Directions :
        LET res == Traverse(startID, depth, direction)
            cap == IF depth > DepthLimit THEN DepthLimit ELSE depth
        IN  /\ {res[i].id : i \in DOMAIN res} = WithinSteps({startID}, cap, direction) \ {startID}
            /\ \A i \in DOMAIN res : \A j \in DOMAIN res : i # j => res[i].id # res[j].id

\* ------------------------------------------------------------------------
\* HybridSearch: reciprocal rank fusion of the FTS and the vector result list.
\* Scores are kept as fractions <<numerator, denominator>> (denominator > 0).
\* ------------------------------------------------------------------------
FracAdd(x, y) == <<x[1] * y[2] + y[1] * x[2], x[2] * y[2]>>

FracGreater(x, y) == x[1] * y[2] > y[1] * x[2]

\* A rank-growing term, for comparison with RRFTerm.
RRFTermGrowing(k, i) == <<k + i, 1>>

\* 1.0 / float64(k+i), i the 0-based index in the list.
RRFTerm(k, i) == <<1, k + i>>

\* rrfScores: the sum over both lists of the terms of nodeID's places.
RECURSIVE ListScore(_, _, _, _)
ListScore(list, nodeID, k, i) ==
    IF i > Len(list)
    THEN <<0, 1>>
    ELSE FracAdd(IF list[i] = nodeID THEN RRFTerm(k, i - 1) ELSE <<0, 1>>,
                 ListScore(list, nodeID, k, i + 1))

RRFScore(fts, vec, nodeID, k) ==
    FracAdd(ListScore(fts, nodeID, k, 1), ListScore(vec, nodeID, k, 1))

\* HybridSearch, given the lists FTSSearch and VectorSearch returned: the
\* lists it may return.  The fused results are sorted by sort.Slice with Score
\* descending (results of equal score stand in any order) and cut to limit.
HybridSearch(fts, vec, limit, k) ==
    LET ids == SeqRange(fts) \cup SeqRange(vec)
        sorted == {seq \in Perms(ids) :
                     \A i \in DOMAIN seq : \A j \in DOMAIN seq :
                        i < j => ~FracGreater(RRFScore(fts, vec, seq[j], k),
                                              RRFScore(fts, vec, seq[i], k))}
    IN  {IF Len(seq) > limit THEN SubSeq(seq, 1, limit) ELSE seq : seq \in sorted}

\* Result lists of a backend search asked for limit*2 results: node IDs, none
\* twice.
ResultLists(limit) ==
    {list \in UNION {Perms(S) : S \in SUBSET SearchNodeIDs} : Len(list) <= limit * 2}

HybridInputs ==
    UNION {[fts : ResultLists(limit), vec : ResultLists(limit), limit : {limit}] :
            limit \in Limits}

InitHybrid ==
    /\ NewKnowledgeGraph
    /\ last = NoOp
    /\ ConcIdle
    /\ FreshStore
    /\ PipelineIdle
    /\ ReindexIdle
    /\ EmbedderIdle
    /\ ParsingIdle
    /\ WalkerIdle
    /\ CommunitiesIdle
    /\ ProcessesIdle
    /\ CouplingIdle
    /\ hin \in HybridInputs
    /\ hout = [done |-> FALSE, results |-> <<>>]
    /\ DeadIdle

hybridFrame == <<hin, graphVars, last, concVars, storeVars, pipeVars, deadVars, couplingVars, processesVars, communitiesVars, walkerVars, parsingVars, embedderVars, reindexVars>>

\* BadgerBackend.HybridSearch: HybridSearch with k = 60.
DoHybridSearch ==
    /\ ~hout.done
    /\ \E results \in HybridSearch(hin.fts, hin.vec, hin.limit, RRFK) :
            hout' = [done |-> TRUE, results |-> results]
    /\ UNCHANGED hybridFrame

NextHybrid == DoHybridSearch

SpecHybrid == InitHybrid /\ [][NextHybrid]_vars

\* The place of a node in a list (0 if absent).
Place(list, nodeID) ==
    IF nodeID \in SeqRange(list)
    THEN CHOOSE i \in DOMAIN list : list[i] = nodeID
    ELSE 0

\* a stands before b in the list, both in it.
RankedHigher(list, a, b) ==
    /\ Place(list, a) > 0
    /\ Place(list, b) > 0
    /\ Place(list, a) < Place(list, b)

\* C15: if a is ranked strictly higher than b in the FTS list and in the
\* vector list, then b is in the fused list only if a is, and a stands before
\* b there.
C15_RRFMonotonic ==
    hout.done =>
        \A a \in SearchNodeIDs : \A b \in SearchNodeIDs :
            (RankedHigher(hin.fts, a, b) /\ RankedHigher(hin.vec, a, b)) =>
                (Place(hout.results, b) > 0 => RankedHigher(hout.results, a, b))

\* A fusion in which a leads b in both lists and the limit cuts b off.
C15_Witness ==
    /\ hout.done
    /\ \E a \in SearchNodeIDs : \E b \in SearchNodeIDs :
            /\ RankedHigher(hin.fts, a, b)
            /\ RankedHigher(hin.vec, a, b)
            /\ Place(hout.results, a) > 0
            /\ Place(hout.results, b) = 0

\* ========================================================================
\* Dead-code detection: ProcessDeadCode and its seven passes
\* ========================================================================
\* Strings the passes inspect are sequences of one-character strings, so
\* that prefix, suffix and substring tests are computed.
HasPrefix(s, p) ==
    /\ Len(s) >= Len(p)
    /\ SubSeq(s, 1, Len(p)) = p

HasSuffix(s, p) ==
    /\ Len(s) >= Len(p)
    /\ SubSeq(s, Len(s) - Len(p) + 1, Len(s)) = p

Contains(s, p) ==
    \E i \in 0..(Len(s) - Len(p)) : SubSeq(s, i + 1, i + Len(p)) = p

\* The fields of graph.GraphNode that the passes read or write.
\* Properties["has_dynamic_dispatch"], ["has_switch_dispatch"],
\* ["call_pattern"], ["dead_code_exempt"] and ["dead_code_confidence"]
\* are the fields hasDynamicDispatch, hasSwitchDispatch, callPattern,
\* exempt and confidence; "" stands for an absent key.
DeadNode(id, label, name, filePath, className) ==
    [id |-> id, label |-> label, name |-> name, filePath |-> filePath,
     className |-> className, isEntryPoint |-> FALSE, isExported |-> FALSE,
     hasDynamicDispatch |-> FALSE, hasSwitchDispatch |-> FALSE,
     isDead |-> FALSE, callPattern |-> "", exempt |-> FALSE, confidence |-> ""]

\* g.GetNode(id) # nil
HasNode(ns, id) == id \in DOMAIN ns

\* KnowledgeGraph.HasIncoming(nodeID, relType)
HasIncoming(rels, nodeID, relType) ==
    \E r \in rels : r.type = relType /\ r.target = nodeID

\* KnowledgeGraph.GetOutgoing(nodeID, relType), as the set of targets
\* that GetNode finds.
OutgoingTargets(ns, rels, nodeID, relType) ==
    {r.target : r \in {x \in rels : x.type = relType /\ x.source = nodeID}}
        \cap DOMAIN ns

\* ------------------------------------------------------------------------
\* Pass 1: detectCallPatterns
\* ------------------------------------------------------------------------
hasDynamicDispatch(node) ==
    \/ node.hasDynamicDispatch
    \/ Contains(node.filePath, <<"s", "e", "r", "v", "e", "r", ".", "g", "o">>) /\ Contains(node.name, <<"h", "a", "n", "d", "l", "e">>)

hasSwitchDispatch(node) ==
    \/ node.hasSwitchDispatch
    \/ /\ Contains(node.filePath, <<"c", "m", "d", ".", "g", "o">>)
       /\ (node.name = <<"R", "u", "n">> \/ HasSuffix(node.name, <<"C", "m", "d">>))

SetPattern(ns, ids, pattern) ==
    [id \in DOMAIN ns |->
        IF id \in ids THEN [ns[id] EXCEPT !.callPattern = pattern] ELSE ns[id]]

\* One iteration of the loop over callers.
detectCallPatternsOf(ns, rels, caller) ==
    LET callees == OutgoingTargets(ns, rels, caller, "calls")
        dyn == IF hasDynamicDispatch(ns[caller])
               THEN SetPattern(ns, callees, "dynamic_dispatch") ELSE ns
    IN  IF hasSwitchDispatch(ns[caller])
        THEN SetPattern(dyn, callees, "framework_dispatch") ELSE dyn

RECURSIVE detectCallPatterns(_, _, _)
detectCallPatterns(ns, rels, order) ==
    IF order = <<>>
    THEN ns
    ELSE detectCallPatterns(detectCallPatternsOf(ns, rels, Head(order)), rels, Tail(order))

\* The callers whose iteration writes something.
Dispatchers(ns) ==
    {id \in DOMAIN ns : hasDynamicDispatch(ns[id]) \/ hasSwitchDispatch(ns[id])}

\* ------------------------------------------------------------------------
\* Pass 2: flagUnreachable
\* ------------------------------------------------------------------------
StructuralLabels == {"file", "folder", "community", "process"}

\* The mutant of flagUnreachable: a call a node makes to itself does
\* not count as an incoming call.
flagNotCalledByOthers(ns, rels) ==
    [id \in DOMAIN ns |->
        IF ns[id].label \in StructuralLabels THEN ns[id]
        ELSE IF ~\E r \in rels : r.type = "calls" /\ r.target = id /\ r.source # id
             THEN [ns[id] EXCEPT !.isDead = TRUE]
             ELSE ns[id]]

flagUnreachable(ns, rels) ==
    [id \in DOMAIN ns |->
        IF ns[id].label \in StructuralLabels THEN ns[id]
        ELSE IF ~HasIncoming(rels, id, "calls")
             THEN [ns[id] EXCEPT !.isDead = TRUE]
             ELSE ns[id]]

\* ------------------------------------------------------------------------
\* Pass 3: trackIntraClassCalls
\* ------------------------------------------------------------------------
Unflag(ns, ids, pattern) ==
    [id \in DOMAIN ns |->
        IF id \in ids
        THEN [ns[id] EXCEPT !.isDead = FALSE, !.callPattern = pattern]
        ELSE ns[id]]

\* The callees un-flagged by the loop over class methods.
IntraClassCallees(ns, rels) ==
    {c \in DOMAIN ns :
        /\ ns[c].label = "method"
        /\ \E n \in DOMAIN ns :
            /\ ns[n].label = "method"
            /\ ns[n].className # <<>>
            /\ c \in OutgoingTargets(ns, rels, n, "calls")
            /\ ns[c].className = ns[n].className}

\* fileMethods[filePath][name] keeps one method for each file and name:
\* the one the map range yields last.  FileMethodChoices is the set of
\* the sets of methods that fileMethods may hold.
FileMethodChoices(ns) ==
    LET methods == {id \in DOMAIN ns : ns[id].label = "method"}
        same(a, b) == ns[a].filePath = ns[b].filePath /\ ns[a].name = ns[b].name
    IN  {R \in SUBSET methods :
            \A m \in methods : Cardinality({r \in R : same(r, m)}) = 1}

\* The callees un-flagged by the loop over fileMethods.
IntraFileCallees(ns, rels, fileMethods) ==
    {c \in DOMAIN ns :
        /\ ns[c].label = "method"
        /\ \E caller \in fileMethods :
            /\ c \in OutgoingTargets(ns, rels, caller, "calls")
            /\ ns[c].filePath = ns[caller].filePath}

trackIntraClassCalls(ns, rels, fileMethods) ==
    Unflag(Unflag(ns, IntraClassCallees(ns, rels), "intra_class"),
           IntraFileCallees(ns, rels, fileMethods), "intra_file")

\* ------------------------------------------------------------------------
\* Pass 4: applyExemptions
\* ------------------------------------------------------------------------
isTestFunction(node) ==
    \/ HasSuffix(node.filePath, <<"_", "t", "e", "s", "t", ".", "g", "o">>)
    \/ HasSuffix(node.filePath, <<"_", "t", "e", "s", "t", ".", "p", "y">>)
    \/ /\ node.label = "function"
       /\ (HasPrefix(node.name, <<"T", "e", "s", "t">>) \/ HasPrefix(node.name, <<"t", "e", "s", "t", "_">>))

\* Every name of the dunderMethods list also has the prefix and the
\* suffix, so the list adds nothing to the first test.
isDunderMethod(node) ==
    HasPrefix(node.name, <<"_", "_">>) /\ HasSuffix(node.name, <<"_", "_">>)

isConstructor(node) ==
    /\ node.label = "method"
    /\ \/ node.name = <<"N", "e", "w">> \o node.className
       \/ node.name = <<"_", "_", "i", "n", "i", "t", "_", "_">>

\* The mutant of isDeadCodeExempt: only the two flags exempt.
isDeadCodeExemptFlagsOnly(node) ==
    node.isEntryPoint \/ node.isExported

isDeadCodeExempt(node) ==
    \/ node.isEntryPoint
    \/ node.isExported
    \/ isTestFunction(node)
    \/ isDunderMethod(node)
    \/ isConstructor(node)
    \/ node.label \in {"community", "process"}

applyExemptions(ns) ==
    [id \in DOMAIN ns |->
        IF ns[id].isDead /\ isDeadCodeExempt(ns[id])
        THEN [ns[id] EXCEPT !.isDead = FALSE]
        ELSE ns[id]]

\* ------------------------------------------------------------------------
\* Pass 5: applyAllowlistExemptions
\* ------------------------------------------------------------------------
isAllowlistExempt(node) ==
    \/ Contains(node.filePath, <<"s", "e", "r", "v", "e", "r", ".", "g", "o">>) /\ HasPrefix(node.name, <<"h", "a", "n", "d", "l", "e">>)
    \/ /\ Contains(node.filePath, <<"c", "m", "d", ".", "g", "o">>)
       /\ \/ HasPrefix(node.name, <<"s", "e", "t", "u", "p">>)
          \/ HasPrefix(node.name, <<"c", "o", "n", "f", "i", "g", "u", "r", "e">>)
          \/ HasPrefix(node.name, <<"o", "u", "t", "p", "u", "t">>)
    \/ HasPrefix(node.name, <<"r", "e", "g", "i", "s", "t", "e", "r">>)
    \/ node.callPattern \in {"dynamic_dispatch", "framework_dispatch",
                             "mcp_handler", "cli_subcommand"}

applyAllowlistExemptions(ns) ==
    [id \in DOMAIN ns |->
        IF ns[id].isDead /\ isAllowlistExempt(ns[id])
        THEN [ns[id] EXCEPT !.isDead = FALSE, !.exempt = TRUE]
        ELSE ns[id]]

\* ------------------------------------------------------------------------
\* Pass 6: applyOverridePass
\* ------------------------------------------------------------------------
\* findClassByName: the class nodes of that name.  The loop returns the
\* first one the iteration yields.
findClassByName(ns, className) ==
    {id \in DOMAIN ns : ns[id].label = "class" /\ ns[id].name = className}

\* findBaseClasses: the direct extends targets that are classes.
findBaseClasses(ns, rels, class) ==
    {b \in OutgoingTargets(ns, rels, class, "extends") : ns[b].label = "class"}

\* findMethodInClass: the methods of that name in the class.  The loop
\* returns the first one the iteration yields.
findMethodInClass(ns, class, methodName) ==
    {id \in DOMAIN ns :
        /\ ns[id].label = "method"
        /\ ns[id].className = ns[class].name
        /\ ns[id].name = methodName}

\* The possible results of isOverrideOfNonDeadMethod.  Only the direct
\* base classes are searched, and a base method's IsDead is read as it
\* is when the method is visited.  Where several classes or base methods
\* match, the result is that of the one the iteration yields first.
isOverrideOfNonDeadMethod(ns, rels, method) ==
    LET classes == findClassByName(ns, ns[method].className)
        cand(b) == findMethodInClass(ns, b, ns[method].name)
        canTrue(class) ==
            \E b \in findBaseClasses(ns, rels, class) :
                \E m \in cand(b) : ~ns[m].isDead
        canFalse(class) ==
            \A b \in findBaseClasses(ns, rels, class) :
                cand(b) = {} \/ \E m \in cand(b) : ns[m].isDead
    IN  IF ns[method].className = <<>> \/ classes = {}
        THEN {FALSE}
        ELSE {v \in BOOLEAN :
                \E class \in classes :
                    (v /\ canTrue(class)) \/ (~v /\ canFalse(class))}

\* One iteration of the loop of applyOverridePass: the node maps it may
\* leave.
applyOverridePassOf(ns, rels, id) ==
    IF ns[id].isDead /\ ns[id].label = "method"
    THEN {IF v THEN [ns EXCEPT ![id].isDead = FALSE] ELSE ns :
            v \in isOverrideOfNonDeadMethod(ns, rels, id)}
    ELSE {ns}

RECURSIVE applyOverridePass(_, _, _)
applyOverridePass(nss, rels, order) ==
    IF order = <<>>
    THEN nss
    ELSE applyOverridePass(
            UNION {applyOverridePassOf(ns, rels, Head(order)) : ns \in nss},
            rels, Tail(order))

\* The nodes whose iteration may write something.
DeadMethods(ns) ==
    {id \in DOMAIN ns : ns[id].isDead /\ ns[id].label = "method"}

\* ------------------------------------------------------------------------
\* Pass 7: assignConfidenceScores
\* ------------------------------------------------------------------------
\* The mutant of Confidence: the lowercase-initial rule is left out.
ConfidenceNoPrivateRule(node) ==
    LET c1 == IF node.callPattern \in {"dynamic_dispatch", "framework_dispatch"}
              THEN "low" ELSE "high"
        c2 == IF node.callPattern = "intra_class" THEN "medium" ELSE c1
    IN  IF isTestFunction(node) \/ Contains(node.filePath, <<"_", "t", "e", "s", "t">>)
        THEN "medium" ELSE c2

Confidence(node) ==
    LET c1 == IF node.callPattern \in {"dynamic_dispatch", "framework_dispatch"}
              THEN "low" ELSE "high"
        c2 == IF node.callPattern = "intra_class" THEN "medium" ELSE c1
        c3 == IF isTestFunction(node) \/ Contains(node.filePath, <<"_", "t", "e", "s", "t">>)
              THEN "medium" ELSE c2
    IN  IF /\ node.label \in {"method", "function"}
           /\ Len(node.name) > 0
           /\ \E i \in DOMAIN LowerLetters : LowerLetters[i] = node.name[1]
           /\ c3 = "high"
        THEN "medium"
        ELSE c3

assignConfidenceScores(ns) ==
    [id \in DOMAIN ns |->
        IF ns[id].isDead
        THEN [ns[id] EXCEPT !.confidence = Confidence(ns[id])]
        ELSE ns[id]]

\* The count ProcessDeadCode returns, and the nodes it counts.
DeadCode(ns) == {id \in DOMAIN ns : ns[id].isDead}

DeadCount(ns) == Cardinality(DeadCode(ns))

\* ------------------------------------------------------------------------
\* The graphs ProcessDeadCode is run on.  No node is flagged dead and no
\* call pattern is recorded before the first pass: the parsers and the
\* earlier phases never write IsDead or the dead-code properties.
\* ------------------------------------------------------------------------
CallRel(s, t) == [type |-> "calls", source |-> s, target |-> t]

ExtendsRel(s, t) == [type |-> "extends", source |-> s, target |-> t]

SymbolIDs == 1..3

CallSets ==
    {R \in SUBSET {CallRel(s, t) : s, t \in SymbolIDs} : Cardinality(R) <= MaxCalls}

MainGo == <<"m", "a", "i", "n", ".", "g", "o">>

\* Three functions of one file, the file node, and up to MaxCalls calls
\* edges among the functions, self-calls and cycles included.
FunctionGraphs ==
    {[nodes |->
        (1 :> [DeadNode(1, "function", name1, MainGo, <<>>) EXCEPT
                    !.isEntryPoint = entry1,
                    !.hasDynamicDispatch = dyn1,
                    !.hasSwitchDispatch = sw1]) @@
        (2 :> DeadNode(2, "function", <<"h", "e", "l", "p", "e", "r">>, MainGo, <<>>)) @@
        (3 :> [DeadNode(3, "function", name3, file3, <<>>) EXCEPT
                    !.isExported = exported3]) @@
        (4 :> DeadNode(4, "file", MainGo, MainGo, <<>>)),
      rels |-> calls] :
        name1 \in {<<"m", "a", "i", "n">>, <<"T", "e", "s", "t", "F", "o", "o">>},
        name3 \in {<<"b", "a", "r">>, <<"B", "a", "r">>, <<"r", "e", "g", "i", "s", "t", "e", "r", "A", "l", "l">>},
        file3 \in {MainGo, <<"u", "t", "i", "l", "_", "t", "e", "s", "t", ".", "g", "o">>},
        entry1 \in BOOLEAN, dyn1 \in BOOLEAN, sw1 \in BOOLEAN,
        exported3 \in BOOLEAN,
        calls \in CallSets}

ClassName(i) == <<<<"A", "B", "C">>[i]>>

ClassFile(i, oneFile) == IF oneFile THEN <<"a", ".", "g", "o">> ELSE <<<<"a", "b", "c">>[i]>> \o <<".", "g", "o">>

\* Classes A, B and C (nodes 4 to 6), one method in each (nodes 1 to 3;
\* A has m, B has m or n, C has m or a constructor), any extends edges
\* from a later class to an earlier one, and up to one calls edge among
\* the methods.
MethodGraphs ==
    {[nodes |->
        (1 :> [DeadNode(1, "method", <<"m">>, ClassFile(1, oneFile), ClassName(1)) EXCEPT
                    !.isExported = exported1]) @@
        (2 :> [DeadNode(2, "method", name2, ClassFile(2, oneFile), ClassName(2)) EXCEPT
                    !.isEntryPoint = entry2]) @@
        (3 :> DeadNode(3, "method", name3, ClassFile(3, oneFile), ClassName(3))) @@
        [c \in 4..6 |->
            DeadNode(c, "class", ClassName(c - 3), ClassFile(c - 3, oneFile), <<>>)],
      rels |-> calls \cup extends] :
        name2 \in {<<"m">>, <<"n">>},
        name3 \in {<<"m">>, <<"N", "e", "w", "C">>, <<"_", "_", "i", "n", "i", "t", "_", "_">>},
        oneFile \in BOOLEAN, exported1 \in BOOLEAN, entry2 \in BOOLEAN,
        calls \in {R \in CallSets : Cardinality(R) <= 1},
        extends \in SUBSET {ExtendsRel(5, 4), ExtendsRel(6, 5), ExtendsRel(6, 4)}}

InitDeadCode ==
    /\ NewKnowledgeGraph
    /\ last = NoOp
    /\ ConcIdle
    /\ FreshStore
    /\ PipelineIdle
    /\ ReindexIdle
    /\ EmbedderIdle
    /\ ParsingIdle
    /\ WalkerIdle
    /\ CommunitiesIdle
    /\ ProcessesIdle
    /\ CouplingIdle
    /\ HybridIdle
    /\ \E g \in FunctionGraphs \cup MethodGraphs :
        /\ dnodes = g.nodes
        /\ drels = g.rels
    /\ dpc = 0

deadFrame == <<graphVars, last, concVars, storeVars, pipeVars, hybridVars, drels, couplingVars, processesVars, communitiesVars, walkerVars, parsingVars, embedderVars, reindexVars>>

DetectCallPatterns ==
    /\ dpc = 0
    /\ \E order \in Orders(Dispatchers(dnodes)) :
        dnodes' = detectCallPatterns(dnodes, drels, order)
    /\ dpc' = 1
    /\ UNCHANGED deadFrame

FlagUnreachable ==
    /\ dpc = 1
    /\ dnodes' = flagUnreachable(dnodes, drels)
    /\ dpc' = 2
    /\ UNCHANGED deadFrame

TrackIntraClassCalls ==
    /\ dpc = 2
    /\ \E fileMethods \in FileMethodChoices(dnodes) :
        dnodes' = trackIntraClassCalls(dnodes, drels, fileMethods)
    /\ dpc' = 3
    /\ UNCHANGED deadFrame

ApplyExemptions ==
    /\ dpc = 3
    /\ dnodes' = applyExemptions(dnodes)
    /\ dpc' = 4
    /\ UNCHANGED deadFrame

ApplyAllowlistExemptions ==
    /\ dpc = 4
    /\ dnodes' = applyAllowlistExemptions(dnodes)
    /\ dpc' = 5
    /\ UNCHANGED deadFrame

ApplyOverridePass ==
    /\ dpc = 5
    /\ \E order \in Orders(DeadMethods(dnodes)) :
        dnodes' \in applyOverridePass({dnodes}, drels, order)
    /\ dpc' = 6
    /\ UNCHANGED deadFrame

AssignConfidenceScores ==
    /\ dpc = 6
    /\ dnodes' = assignConfidenceScores(dnodes)
    /\ dpc' = 7
    /\ UNCHANGED deadFrame

\* ProcessDeadCode has returned.
DeadCodeDone == dpc = 7

NextDeadCode ==
    \/ DetectCallPatterns
    \/ FlagUnreachable
    \/ TrackIntraClassCalls
    \/ ApplyExemptions
    \/ ApplyAllowlistExemptions
    \/ ApplyOverridePass
    \/ AssignConfidenceScores

SpecDeadCode == InitDeadCode /\ [][NextDeadCode]_vars

\* ------------------------------------------------------------------------
\* Properties of ProcessDeadCode
\* ------------------------------------------------------------------------
\* C16: after ProcessDeadCode, no node whose IsEntryPoint flag is set, or
\* that is exported, a test function, a dunder method or a constructor,
\* has IsDead = true.
C16_ExemptNeverDead ==
    DeadCodeDone =>
        \A id \in DOMAIN dnodes :
            (\/ dnodes[id].isEntryPoint
             \/ dnodes[id].isExported
             \/ isTestFunction(dnodes[id])
             \/ isDunderMethod(dnodes[id])
             \/ isConstructor(dnodes[id]))
                => ~dnodes[id].isDead

\* A Go constructor without callers and without flags, flagged by
\* flagUnreachable, is not dead at the end.
C16_Witness ==
    /\ DeadCodeDone
    /\ \E id \in DOMAIN dnodes :
        /\ ~HasIncoming(drels, id, "calls")
        /\ dnodes[id].name = <<"N", "e", "w", "C">>
        /\ isConstructor(dnodes[id])
        /\ ~dnodes[id].isEntryPoint
        /\ ~dnodes[id].isDead

\* C17: a function named main whose IsEntryPoint flag is not set and
\* that has no callers is not marked dead after ProcessDeadCode.
C17_MainByNameNotDead ==
    DeadCodeDone =>
        \A id \in DOMAIN dnodes :
            (/\ dnodes[id].label = "function"
             /\ dnodes[id].name = <<"m", "a", "i", "n">>
             /\ ~dnodes[id].isEntryPoint
             /\ ~HasIncoming(drels, id, "calls"))
                => ~dnodes[id].isDead

\* The graph of the scenario: main (entry point) calls helper, nothing
\* calls the unexported function of node 3 in main.go.
SimpleDeadCode(name3) ==
    /\ dnodes[1].label = "function"
    /\ dnodes[1].name = <<"m", "a", "i", "n">>
    /\ dnodes[1].isEntryPoint
    /\ ~dnodes[1].hasDynamicDispatch
    /\ ~dnodes[1].hasSwitchDispatch
    /\ dnodes[2].name = <<"h", "e", "l", "p", "e", "r">>
    /\ dnodes[3].label = "function"
    /\ dnodes[3].name = name3
    /\ dnodes[3].filePath = MainGo
    /\ ~dnodes[3].isExported
    /\ drels = {CallRel(1, 2)}

\* C18 (as stated): for main (entry point), helper (called by main) and
\* bar (no callers), ProcessDeadCode reports bar as the dead code and
\* gives it dead_code_confidence "high".
C18_BarHighConfidence ==
    (DeadCodeDone /\ SimpleDeadCode(<<"b", "a", "r">>)) =>
        /\ DeadCode(dnodes) = {3}
        /\ dnodes[3].confidence = "high"

\* C18 (amended): in that graph ProcessDeadCode reports bar as the only
\* dead code, a count of 1, and gives it dead_code_confidence "medium",
\* bar being a function with a lowercase first letter; an unexported
\* function Bar in its place gets "high".
C18_BarMediumConfidence ==
    /\ (DeadCodeDone /\ SimpleDeadCode(<<"b", "a", "r">>)) =>
            /\ DeadCode(dnodes) = {3}
            /\ DeadCount(dnodes) = 1
            /\ dnodes[3].confidence = "medium"
    /\ (DeadCodeDone /\ SimpleDeadCode(<<"B", "a", "r">>)) =>
            /\ DeadCode(dnodes) = {3}
            /\ dnodes[3].confidence = "high"

C18_Witness ==
    /\ DeadCodeDone
    /\ SimpleDeadCode(<<"b", "a", "r">>)
    /\ dnodes[3].isDead

\* The classes reachable from class c through one or more extends edges.
RECURSIVE AncestorsWithin(_, _, _, _)
AncestorsWithin(ns, rels, S, k) ==
    IF k = 0
    THEN S
    ELSE AncestorsWithin(ns, rels,
            S \cup UNION {findBaseClasses(ns, rels, c) : c \in S}, k - 1)

Ancestors(ns, rels, c) ==
    AncestorsWithin(ns, rels, findBaseClasses(ns, rels, c), Cardinality(DOMAIN ns))

\* C19: a method M of a class C that has no callers is not marked dead
\* after ProcessDeadCode if some ancestor class of C, reachable through
\* one or more extends edges, has a method of the same name that is not
\* dead, whatever order the nodes are visited in.
C19_OverrideOfLiveAncestor ==
    DeadCodeDone =>
        \A m \in DOMAIN dnodes :
            (/\ dnodes[m].label = "method"
             /\ ~HasIncoming(drels, m, "calls")
             /\ \E c \in findClassByName(dnodes, dnodes[m].className) :
                    \E a \in Ancestors(dnodes, drels, c) :
                        \E am \in findMethodInClass(dnodes, a, dnodes[m].name) :
                            ~dnodes[am].isDead)
                => ~dnodes[m].isDead

\* The nodes reachable along calls edges from the nodes of S.
RECURSIVE ReachableWithin(_, _, _, _)
ReachableWithin(ns, rels, S, k) ==
    IF k = 0
    THEN S
    ELSE ReachableWithin(ns, rels,
            S \cup UNION {OutgoingTargets(ns, rels, n, "calls") : n \in S}, k - 1)

\* The entry points that are not dead.
LiveEntryPoints(ns) ==
    {id \in DOMAIN ns : ns[id].isEntryPoint /\ ~ns[id].isDead}

ReachableFromLiveEntry(ns, rels) ==
    ReachableWithin(ns, rels, LiveEntryPoints(ns), Cardinality(DOMAIN ns))

\* A symbol: a node flagUnreachable does not skip.
IsSymbol(node) == node.label \notin StructuralLabels

\* The node matches one of the rules of applyExemptions or
\* applyAllowlistExemptions.
MatchesExemption(node) == isDeadCodeExempt(node) \/ isAllowlistExempt(node)

\* The method has a direct base class with a method of its name: the
\* override pass may un-flag it.
HasBaseMethod(ns, rels, m) ==
    /\ ns[m].label = "method"
    /\ \E c \in findClassByName(ns, ns[m].className) :
        \E b \in findBaseClasses(ns, rels, c) :
            findMethodInClass(ns, b, ns[m].name) # {}

\* C20 (as stated): after ProcessDeadCode, every symbol that is not
\* reachable along calls edges from a live entry point and matches no
\* exemption rule is marked dead, symbols that only call themselves or
\* each other in a cycle included.
C20_UnreachableIsDead ==
    DeadCodeDone =>
        \A id \in DOMAIN dnodes :
            (/\ IsSymbol(dnodes[id])
             /\ id \notin ReachableFromLiveEntry(dnodes, drels)
             /\ ~MatchesExemption(dnodes[id])
             /\ ~HasBaseMethod(dnodes, drels, id))
                => dnodes[id].isDead

\* C20 (amended): after ProcessDeadCode, every symbol that has no
\* incoming calls edge, matches no exemption rule and overrides no base
\* method is marked dead, and no node with an incoming calls edge is
\* marked dead, a symbol that only calls itself or is only called in a
\* cycle included.
C20_UncalledIsDead ==
    DeadCodeDone =>
        \A id \in DOMAIN dnodes :
            /\ (/\ IsSymbol(dnodes[id])
                /\ ~HasIncoming(drels, id, "calls")
                /\ ~MatchesExemption(dnodes[id])
                /\ ~HasBaseMethod(dnodes, drels, id))
                    => dnodes[id].isDead
            /\ HasIncoming(drels, id, "calls") => ~dnodes[id].isDead

\* A function called by nobody but itself, out of reach of the live
\* entry point, is not dead, while an uncalled one is.
C20_Witness ==
    /\ DeadCodeDone
    /\ \E id, other \in DOMAIN dnodes :
        /\ IsSymbol(dnodes[id])
        /\ \A r \in drels : r.target = id => r.source = id
        /\ HasIncoming(drels, id, "calls")
        /\ id \notin ReachableFromLiveEntry(dnodes, drels)
        /\ ~MatchesExemption(dnodes[id])
        /\ ~dnodes[id].isDead
        /\ ~HasIncoming(drels, other, "calls")
        /\ dnodes[other].isDead

\* ========================================================================
\* Change coupling: ProcessCoupling
\* ========================================================================
\* The characters of the paths below, in byte order.
CharOrder == <<".", "/", "a", "b", "g", "k", "o", "p">>

CharRank(c) == CHOOSE i \in DOMAIN CharOrder : CharOrder[i] = c

\* The Go comparison a < b of two strings.
RECURSIVE StrLess(_, _)
StrLess(a, b) ==
    IF b = <<>> THEN FALSE
    ELSE IF a = <<>> THEN TRUE
    ELSE IF Head(a) = Head(b) THEN StrLess(Tail(a), Tail(b))
    ELSE CharRank(Head(a)) < CharRank(Head(b))

\* filepath.Base: what follows the last separator.
RECURSIVE Base(_)
Base(path) ==
    IF \E i \in DOMAIN path : path[i] = "/"
    THEN Base(Tail(path))
    ELSE path

\* The paths git log names, and the files the walker may have found.
GitPaths == {<<"a", ".", "g", "o">>, <<"b", ".", "g", "o">>, <<"p", "k", "g", "/", "a", ".", "g", "o">>}

\* The file node ProcessStructure builds for a path.
CouplingFileNode(path) ==
    [id |-> <<"f", "i", "l", "e", ":">> \o path, label |-> "file", name |-> Base(path), filePath |-> path]

FileNodeMaps ==
    {[id \in {CouplingFileNode(p).id : p \in P} |->
        CHOOSE n \in {CouplingFileNode(p) : p \in P} : n.id = id] : P \in SUBSET GitPaths}

\* A commit is the set of the paths it changed.  The counts depend only on
\* how many commits changed each set of paths, so the commit list is held
\* as a count for each set.
\* The commits looked at change a.go alone or two or three of the paths.
Commits ==
    {c \in SUBSET GitPaths : Cardinality(c) >= 2 \/ c = {<<"a", ".", "g", "o">>}}

CommitCounts == {0, 1, 3, 8}

ChangeLogs == [Commits -> CommitCounts]

RECURSIVE SumOver(_, _)
SumOver(changes, S) ==
    IF S = {} THEN 0
    ELSE LET c == CHOOSE x \in S : TRUE
         IN  changes[c] + SumOver(changes, S \ {c})

\* totalChanges[file]
TotalChanges(changes, file) ==
    SumOver(changes, {c \in Commits : file \in c})

\* buildCoChangeMatrix: matrix[fileA][fileB], 0 where there is no entry.
CoChanges(changes, fileA, fileB) ==
    SumOver(changes, {c \in Commits : fileA \in c /\ fileB \in c})

Max(x, y) == IF x >= y THEN x ELSE y

\* computeCouplingStrength, as the fraction <<coChanges, maxTotal>>.
computeCouplingStrength(coChanges, totalA, totalB) ==
    IF totalA = 0 \/ totalB = 0 THEN <<0, 1>> ELSE <<coChanges, Max(totalA, totalB)>>

\* strength < 0.3.  The quotient of the two float64 values is the nearest
\* double to the fraction, and 0.3 the nearest double to 3/10, so for
\* counts of this size the comparison is that of the fractions.
IsWeak(strength) == 10 * strength[1] < 3 * strength[2]

\* findFileNode: the nodes it may return ({} for nil).  Without a node of
\* the ID "file:" + path it returns the first file node GetNodesByLabel
\* yields whose FilePath or Name is the path.
findFileNode(files, filePath) ==
    IF (<<"f", "i", "l", "e", ":">> \o filePath) \in DOMAIN files
    THEN {files[<<"f", "i", "l", "e", ":">> \o filePath]}
    ELSE {n \in MapValues(files) :
            n.label = "file" /\ (n.filePath = filePath \/ n.name = filePath)}

\* The pairs of the matrix that pass the filters and whose two nodes are
\* found.
CoupledPairs(files, changes) ==
    {p \in GitPaths \X GitPaths :
        /\ StrLess(p[1], p[2])
        /\ CoChanges(changes, p[1], p[2]) > 0
        /\ LET count == CoChanges(changes, p[1], p[2])
               strength == computeCouplingStrength(count,
                               TotalChanges(changes, p[1]), TotalChanges(changes, p[2]))
           IN  ~(IsWeak(strength) \/ count < 3)
        /\ findFileNode(files, p[1]) # {}
        /\ findFileNode(files, p[2]) # {}}

CoupledEdge(changes, fileA, fileB, nodeA, nodeB) ==
    [id |-> <<fileA, fileB>>, type |-> "coupled_with",
     source |-> nodeA.id, target |-> nodeB.id,
     strength |-> computeCouplingStrength(CoChanges(changes, fileA, fileB),
                     TotalChanges(changes, fileA), TotalChanges(changes, fileB)),
     co_changes |-> CoChanges(changes, fileA, fileB)]

\* ProcessCoupling: the sets of edges it may add, one for each choice of
\* the nodes findFileNode returns.
ProcessCouplingEdges(files, git) ==
    IF ~git.ok
    THEN {{}}
    ELSE LET pairs == CoupledPairs(files, git.changes)
             picks == {f \in [pairs -> MapValues(files) \X MapValues(files)] :
                          \A p \in pairs :
                              /\ f[p][1] \in findFileNode(files, p[1])
                              /\ f[p][2] \in findFileNode(files, p[2])}
         IN  {{CoupledEdge(git.changes, p[1], p[2], f[p][1], f[p][2]) : p \in pairs} :
                f \in picks}

NoCommits == [c \in Commits |-> 0]

InitCoupling ==
    /\ NewKnowledgeGraph
    /\ last = NoOp
    /\ ConcIdle
    /\ FreshStore
    /\ PipelineIdle
    /\ ReindexIdle
    /\ EmbedderIdle
    /\ ParsingIdle
    /\ WalkerIdle
    /\ CommunitiesIdle
    /\ ProcessesIdle
    /\ HybridIdle
    /\ DeadIdle
    /\ cfiles \in FileNodeMaps
    /\ \/ cgit \in [ok : {TRUE}, changes : ChangeLogs]
       \/ cgit = [ok |-> FALSE, changes |-> NoCommits]
    /\ cedges = {}
    /\ cout = [done |-> FALSE, ret |-> 0]

couplingFrame == <<graphVars, last, concVars, storeVars, pipeVars, hybridVars, deadVars,
                   cfiles, cgit, processesVars, communitiesVars, walkerVars, parsingVars, embedderVars, reindexVars>>

DoProcessCoupling ==
    /\ ~cout.done
    /\ \E edges \in ProcessCouplingEdges(cfiles, cgit) :
        /\ cedges' = edges
        /\ cout' = [done |-> TRUE, ret |-> Cardinality(edges)]
    /\ UNCHANGED couplingFrame

NextCoupling == DoProcessCoupling

SpecCoupling == InitCoupling /\ [][NextCoupling]_vars

\* The graph holds the file node of the path.
FileNodeExists(files, path) ==
    \E n \in MapValues(files) : n.label = "file" /\ n.filePath = path

\* C21: for two paths a < b of the git log, a coupled_with edge is
\* emitted if and only if M[a][b] / max(T[a], T[b]) >= 0.3, M[a][b] >= 3
\* and the file nodes of both paths exist in the graph; the edge joins
\* exactly the file nodes of a and b.
C21_CoupledIff ==
    cout.done =>
        \A a, b \in GitPaths :
            (StrLess(a, b) /\ cgit.ok) =>
                LET count == CoChanges(cgit.changes, a, b)
                    maxTotal == Max(TotalChanges(cgit.changes, a),
                                    TotalChanges(cgit.changes, b))
                    emitted == {e \in cedges : e.id = <<a, b>>}
                IN  /\ (emitted # {}) <=>
                            /\ count >= 3
                            /\ 10 * count >= 3 * maxTotal
                            /\ FileNodeExists(cfiles, a)
                            /\ FileNodeExists(cfiles, b)
                    /\ \A e \in emitted :
                            /\ cfiles[e.source].filePath = a
                            /\ cfiles[e.target].filePath = b

\* ========================================================================
\* Execution flows: ProcessProcesses
\* ========================================================================
\* isEntryPoint (ingestion): the flag, a function named main or Test*,
\* test_*, a handler decorator, or a name containing Cmd or Command.
isEntryPoint(node) ==
    \/ node.isEntryPoint
    \/ node.label = "function" /\ node.name = <<"m", "a", "i", "n">>
    \/ /\ node.label = "function"
       /\ (HasPrefix(node.name, <<"T", "e", "s", "t">>) \/ HasPrefix(node.name, <<"t", "e", "s", "t", "_">>))
    \/ \E i \in DOMAIN node.decorators :
        \/ Contains(node.decorators[i], <<"H", "a", "n", "d", "l", "e", "F", "u", "n", "c">>)
        \/ Contains(node.decorators[i], <<"H", "a", "n", "d", "l", "e">>)
        \/ Contains(node.decorators[i], <<"h", "t", "t", "p", ".">>)
    \/ Contains(node.name, <<"C", "m", "d">>)
    \/ Contains(node.name, <<"C", "o", "m", "m", "a", "n", "d">>)

\* findEntryPoints, as a set: g.IterNodes yields the nodes in map order.
findEntryPoints(g) ==
    {id \in DOMAIN g.nodes : isEntryPoint(g.nodes[id])}

\* KnowledgeGraph.GetCallees, as a set: the targets of the calls
\* relationships of the node that are nodes of the graph.
GraphCallees(g, nodeID) ==
    {c \in g.calls : c[1] = nodeID /\ c[2] \in DOMAIN g.nodes}

NewCallees(g, flow, current) ==
    {c[2] : c \in GraphCallees(g, current)} \ {flow[i] : i \in DOMAIN flow}

\* The BFS loop of traceFlow: the flows it may return, one for each order
\* in which GetCallees lists the callees.
RECURSIVE TraceLoop(_, _, _, _, _)
TraceLoop(g, flow, queue, depth, maxDepth) ==
    IF queue = <<>>
    THEN {flow}
    ELSE LET current == Head(queue)
         IN  IF depth[current] >= maxDepth
             THEN TraceLoop(g, flow, Tail(queue), depth, maxDepth)
             ELSE UNION {TraceLoop(g, flow \o order, Tail(queue) \o order,
                                   [id \in DOMAIN depth \cup NewCallees(g, flow, current) |->
                                        IF id \in DOMAIN depth THEN depth[id]
                                        ELSE depth[current] + 1],
                                   maxDepth) :
                            order \in Orders(NewCallees(g, flow, current))}

traceFlow(g, startNodeID, maxDepth) ==
    TraceLoop(g, <<startNodeID>>, <<startNodeID>>, [id \in {startNodeID} |-> 0], maxDepth)

\* deduplicateFlows: the first occurrence of each flow is kept.
deduplicateFlows(flows) ==
    SelectSeq([i \in DOMAIN flows |-> [i |-> i, flow |-> flows[i]]],
              LAMBDA x : \A j \in 1..(x.i - 1) : flows[j] # x.flow)

\* fmt.Sprintf("process:flow-%d", i)
ProcessID(i) == <<"process", i>>

\* Variant: the step edge ID does not name the process.
StepEdgeIDWithoutProcess(processID, step) == <<"step", step>>

\* fmt.Sprintf("step:%s:%d", processID, step)
StepEdgeID(processID, step) == <<"step", processID, step>>

\* generateProcessLabel
generateProcessLabel(g, flow) ==
    IF flow = <<>> THEN <<"U", "n", "k", "n", "o", "w", "n", " ", "P", "r", "o", "c", "e", "s", "s">>
    ELSE IF flow[1] \in DOMAIN g.nodes
         THEN <<"F", "l", "o", "w", " ", "f", "r", "o", "m", " ">> \o g.nodes[flow[1]].name
         ELSE <<"F", "l", "o", "w", " ", "?">>

\* The STEP_IN_PROCESS edges of all flows, added in order; an edge with
\* the ID of an earlier one replaces it.
RECURSIVE AddStepEdges(_, _, _, _)
AddStepEdges(edges, flows, i, step) ==
    IF i > Len(flows)
    THEN edges
    ELSE IF step >= Len(flows[i])
         THEN AddStepEdges(edges, flows, i + 1, 0)
         ELSE AddStepEdges(
                MapPut(edges, StepEdgeID(ProcessID(i - 1), step),
                       [id |-> StepEdgeID(ProcessID(i - 1), step),
                        type |-> "step_in_process",
                        source |-> flows[i][step + 1],
                        target |-> ProcessID(i - 1),
                        step_number |-> step]),
                flows, i, step + 1)

\* What one call adds to the graph and returns, for the flows traced in
\* the order of the entry points.
ProcessResult(g, allFlows) ==
    LET flows == [i \in DOMAIN deduplicateFlows(allFlows) |->
                    deduplicateFlows(allFlows)[i].flow]
    IN  [flows |-> flows,
         nodes |-> [p \in {ProcessID(i - 1) : i \in DOMAIN flows} |->
                        [id |-> p, label |-> "process",
                         name |-> generateProcessLabel(g, flows[p[2] + 1]),
                         filePath |-> <<>>]],
         edges |-> AddStepEdges(EmptyMap, flows, 1, 0),
         ret |-> Len(flows)]

\* ProcessProcesses: the results it may have.
ProcessProcessesResults(g) ==
    {ProcessResult(g, allFlows) :
        allFlows \in UNION {
            {f \in [1..Len(entryPoints) -> UNION {traceFlow(g, e, DepthLimit) : e \in DOMAIN g.nodes}] :
                \A i \in DOMAIN f : f[i] \in traceFlow(g, entryPoints[i], DepthLimit)} :
            entryPoints \in Orders(findEntryPoints(g))}}

\* A function node as the parsers build it.
FlowNode(id, name, flag, decorators) ==
    [id |-> id, label |-> "function", name |-> name, isEntryPoint |-> flag,
     decorators |-> decorators]

\* Three functions (the first named A or main, the third with or without
\* a handler decorator) and up to MaxCalls calls among them.
FlowGraphs ==
    {[nodes |-> (1 :> FlowNode(1, name1, flag1, <<>>)) @@
                (2 :> FlowNode(2, <<"B">>, flag2, <<>>)) @@
                (3 :> FlowNode(3, <<"C">>, FALSE, dec3)),
      calls |-> calls] :
        name1 \in {<<"A">>, <<"m", "a", "i", "n">>},
        flag1 \in BOOLEAN, flag2 \in BOOLEAN,
        dec3 \in {<<>>, <<<<"h", "t", "t", "p", ".", "H", "a", "n", "d", "l", "e", "F", "u", "n", "c">>>>},
        calls \in {R \in SUBSET (SymbolIDs \X SymbolIDs) : Cardinality(R) <= MaxCalls}}

InitProcesses ==
    /\ NewKnowledgeGraph
    /\ last = NoOp
    /\ ConcIdle
    /\ FreshStore
    /\ PipelineIdle
    /\ ReindexIdle
    /\ EmbedderIdle
    /\ ParsingIdle
    /\ WalkerIdle
    /\ CommunitiesIdle
    /\ HybridIdle
    /\ DeadIdle
    /\ CouplingIdle
    /\ xg \in FlowGraphs
    /\ xruns = <<>>

processesFrame == <<graphVars, last, concVars, storeVars, pipeVars, hybridVars, deadVars,
                    couplingVars, xg, communitiesVars, walkerVars, parsingVars, embedderVars, reindexVars>>

\* One pipeline run reaches ProcessProcesses with the graph the parsers
\* built from the same files.
DoProcessProcesses ==
    /\ Len(xruns) < MaxRuns
    /\ \E r \in ProcessProcessesResults(xg) : xruns' = Append(xruns, r)
    /\ UNCHANGED processesFrame

NextProcesses == DoProcessProcesses

SpecProcesses == InitProcesses /\ [][NextProcesses]_vars

\* The step_in_process edges of a result that lead into a process node.
StepsInto(r, p) == {e \in MapValues(r.edges) : e.target = p}

\* The graph of the scenario: calls A -> B -> C, A the only entry point.
ChainABC ==
    /\ findEntryPoints(xg) = {1}
    /\ xg.calls = {<<1, 2>>, <<2, 3>>}

\* C22: every process node created from a flow f0, ..., f(n-1) has
\* exactly n step_in_process edges into it, the one with step_number i
\* coming from fi, and f0 is an entry point; calls A -> B -> C with the
\* entry point A give one process node with the steps 0, 1, 2.
C22_StepsOfProcess ==
    \A k \in DOMAIN xruns :
        LET r == xruns[k]
        IN  /\ \A i \in DOMAIN r.flows :
                LET flow == r.flows[i]
                    p == ProcessID(i - 1)
                IN  /\ p \in DOMAIN r.nodes
                    /\ Cardinality(StepsInto(r, p)) = Len(flow)
                    /\ \A s \in 0..(Len(flow) - 1) :
                        \E e \in StepsInto(r, p) :
                            e.step_number = s /\ e.source = flow[s + 1]
                    /\ flow[1] \in findEntryPoints(xg)
            /\ DOMAIN r.nodes = {ProcessID(i - 1) : i \in DOMAIN r.flows}
            /\ ChainABC =>
                /\ r.ret = 1
                /\ DOMAIN r.nodes = {ProcessID(0)}
                /\ {<<e.source, e.step_number>> : e \in StepsInto(r, ProcessID(0))}
                        = {<<1, 0>>, <<2, 1>>, <<3, 2>>}

\* A run on the chain A -> B -> C, and a run that created two processes
\* of different lengths.
C22_Witness ==
    \/ /\ ChainABC
       /\ Len(xruns) >= 1
    \/ /\ Len(xruns) >= 1
       /\ xruns[1].ret = 2
       /\ Len(xruns[1].flows[1]) # Len(xruns[1].flows[2])

\* C24: two runs over the same files and parser output generate the same
\* node IDs and relationship IDs, and every process node ID and label and
\* every step_in_process edge ID denotes the same flow and step in both.
C24_ProcessesStable ==
    Len(xruns) = 2 =>
        /\ DOMAIN xruns[1].nodes = DOMAIN xruns[2].nodes
        /\ DOMAIN xruns[1].edges = DOMAIN xruns[2].edges
        /\ xruns[1].nodes = xruns[2].nodes
        /\ xruns[1].edges = xruns[2].edges

\* ========================================================================
\* Community detection: DetectCommunities
\* ========================================================================
SymbolLabels == {"function", "method", "class", "interface"}

\* getSymbolNodes, as a set: g.IterNodes yields the nodes in map order.
getSymbolNodes(g) ==
    {id \in DOMAIN g.nodes : g.nodes[id].label \in SymbolLabels}

\* buildAdjacencyMatrix, for indexNode (index i of the code is position
\* i + 1): every calls relationship between two symbols adds 1 in both
\* directions.
buildAdjacencyMatrix(g, indexNode) ==
    [i \in 0..(Len(indexNode) - 1) |->
        [j \in 0..(Len(indexNode) - 1) |->
            Cardinality({c \in g.calls : c[1] = indexNode[i + 1] /\ c[2] = indexNode[j + 1]})
          + Cardinality({c \in g.calls : c[1] = indexNode[j + 1] /\ c[2] = indexNode[i + 1]})]]

RECURSIVE SumTo(_, _)
SumTo(f, k) == IF k < 0 THEN 0 ELSE f[k] + SumTo(f, k - 1)

\* degrees[i]
Degree(adjMatrix, i) == SumTo(adjMatrix[i], Cardinality(DOMAIN adjMatrix) - 1)

\* totalWeight
TotalWeight(adjMatrix) ==
    SumTo([i \in DOMAIN adjMatrix |-> Degree(adjMatrix, i)], Cardinality(DOMAIN adjMatrix) - 1)

\* calculateModularityGain times totalWeight squared, an integer:
\* sigmaIn * totalWeight - ki * sigmaTot.
calculateModularityGain(node, comm, communities, adjMatrix) ==
    LET n == Cardinality(DOMAIN adjMatrix)
        inComm(j) == communities[j] = comm /\ j # node
        sigmaIn == SumTo([j \in DOMAIN adjMatrix |->
                            IF inComm(j) THEN adjMatrix[node][j] ELSE 0], n - 1)
        sigmaTot == SumTo([j \in DOMAIN adjMatrix |->
                            IF inComm(j) THEN Degree(adjMatrix, j) ELSE 0], n - 1)
                    + Degree(adjMatrix, node)
    IN  sigmaIn * TotalWeight(adjMatrix) - Degree(adjMatrix, node) * sigmaTot

\* The loop over neighborComms for one node, in one map order: the
\* triples <<bestComm, bestGain, improved>> it may end with.  Two equal
\* gains that are not zero come from different float64 operations and
\* may compare either way.
RECURSIVE BestCommunity(_, _, _, _, _)
BestCommunity(node, communities, adjMatrix, order, best) ==
    IF order = <<>>
    THEN {best}
    ELSE LET comm == Head(order)
             gain == calculateModularityGain(node, comm, communities, adjMatrix)
             moved == <<comm, gain, TRUE>>
         IN  IF comm = best[1]
             THEN BestCommunity(node, communities, adjMatrix, Tail(order), best)
             ELSE IF gain > best[2]
             THEN BestCommunity(node, communities, adjMatrix, Tail(order), moved)
             ELSE IF gain = best[2] /\ gain # 0
             THEN BestCommunity(node, communities, adjMatrix, Tail(order), moved)
                    \cup BestCommunity(node, communities, adjMatrix, Tail(order), best)
             ELSE BestCommunity(node, communities, adjMatrix, Tail(order), best)

\* One node of the inner loop: the pairs <<communities, improved>> it
\* may leave.
MoveNode(node, communities, adjMatrix, improved) ==
    LET neighborComms == {communities[j] : j \in {k \in DOMAIN adjMatrix : adjMatrix[node][k] > 0}}
    IN  {<<[communities EXCEPT ![node] = b[1]], b[3]>> :
            b \in UNION {BestCommunity(node, communities, adjMatrix, order,
                                       <<communities[node], 0, improved>>) :
                            order \in Orders(neighborComms)}}

\* One pass over the nodes in the order rand.Perm gives.
RECURSIVE MoveNodes(_, _, _)
MoveNodes(states, adjMatrix, nodeOrder) ==
    IF nodeOrder = <<>>
    THEN states
    ELSE MoveNodes(UNION {MoveNode(Head(nodeOrder), s[1], adjMatrix, s[2]) : s \in states},
                   adjMatrix, Tail(nodeOrder))

Pass(communities, adjMatrix) ==
    UNION {MoveNodes({<<communities, FALSE>>}, adjMatrix, nodeOrder) :
            nodeOrder \in Orders(DOMAIN adjMatrix)}

\* The optimization loop: the assignments it may end with after at most
\* maxIterations passes, from the assignments S reached so far.
RECURSIVE Optimize(_, _, _, _)
Optimize(S, adjMatrix, iterations, maxIterations) ==
    IF S = {} \/ iterations >= maxIterations
    THEN S
    ELSE LET after == UNION {Pass(c, adjMatrix) : c \in S}
             stopped == {s[1] : s \in {x \in after : ~x[2]}}
             goOn == {s[1] : s \in {x \in after : x[2]}}
         IN  stopped \cup
             (IF goOn = S
              THEN goOn
              ELSE Optimize(goOn, adjMatrix, iterations + 1, maxIterations))

\* The index of the first node of a community.
FirstOf(communities, comm) ==
    CHOOSE i \in DOMAIN communities :
        /\ communities[i] = comm
        /\ \A j \in DOMAIN communities : communities[j] = comm => i <= j

\* The renumbering: communities get consecutive numbers in the order of
\* their first node.
Renumber(communities) ==
    [i \in DOMAIN communities |->
        Cardinality({comm \in {communities[j] : j \in DOMAIN communities} :
            FirstOf(communities, comm) < FirstOf(communities, communities[i])})]

\* assignCommunities: the assignments it may return.
assignCommunities(adjMatrix) ==
    LET n == Cardinality(DOMAIN adjMatrix)
        own == [i \in DOMAIN adjMatrix |-> i]
    IN  IF n = 0 THEN {<<>>}
        ELSE IF n = 1 THEN {[i \in {0} |-> 0]}
        ELSE IF TotalWeight(adjMatrix) = 0 THEN {own}
        ELSE {Renumber(c) : c \in Optimize({own}, adjMatrix, 0, MaxIterations)}

\* fmt.Sprintf("community:%d", commID)
CommunityID(commID) == <<"community", commID>>

\* Variant: the member_of edge ID does not name the member.
MemberEdgeIDWithoutMember(memberID, communityID) == <<"member", communityID>>

\* fmt.Sprintf("member:%s:%s", memberID, communityID)
MemberEdgeID(memberID, communityID) == <<"member", memberID, communityID>>

\* generateCommunityLabel: the sorted names of the members (at most three
\* of them) and the number of the further ones.
generateCommunityLabel(g, members) ==
    [names |-> {g.nodes[m].name : m \in members \cap DOMAIN g.nodes},
     more |-> IF Cardinality(members) > 3 THEN Cardinality(members) - 3 ELSE 0]

\* What DetectCommunities adds and returns for one index order and one
\* assignment.
CommunityResult(g, indexNode, communities) ==
    LET commIDs == {communities[i] : i \in DOMAIN communities}
        members(c) == {indexNode[i + 1] : i \in {k \in DOMAIN communities : communities[k] = c}}
        used == {c \in commIDs : members(c) # {}}
        memberEdges ==
            {[id |-> MemberEdgeID(indexNode[i + 1], CommunityID(communities[i])),
              type |-> "member_of",
              source |-> indexNode[i + 1],
              target |-> CommunityID(communities[i])] : i \in DOMAIN communities}
    IN  [done |-> TRUE,
         nodes |-> [id \in {CommunityID(c) : c \in used} |->
                        [id |-> id, label |-> "community",
                         name |-> generateCommunityLabel(g, members(id[2])),
                         member_count |-> Cardinality(members(id[2]))]],
         edges |-> [id \in {e.id : e \in memberEdges} |->
                        CHOOSE e \in memberEdges : e.id = id],
         ret |-> Cardinality(used)]

NoCommunities == [done |-> TRUE, nodes |-> EmptyMap, edges |-> EmptyMap, ret |-> 0]

\* DetectCommunities: the results it may have.
DetectCommunitiesResults(g) ==
    IF getSymbolNodes(g) = {}
    THEN {NoCommunities}
    ELSE UNION {{CommunityResult(g, indexNode, communities) :
                    communities \in assignCommunities(buildAdjacencyMatrix(g, indexNode))} :
                indexNode \in Orders(getSymbolNodes(g))}

\* A node as the parsers build it.
CommunityNode(id, label, name) == [id |-> id, label |-> label, name |-> name]

\* Up to three symbols and a file node, with up to MaxCommunityCalls
\* calls among the symbols.
CommunityGraphs ==
    {[nodes |-> [id \in ids \cup {4} |->
                    IF id = 4 THEN CommunityNode(4, "file", <<"a", ".", "g", "o">>)
                    ELSE IF id = 3 THEN CommunityNode(3, label3, <<"C">>)
                    ELSE CommunityNode(id, "function", <<<<"A", "B">>[id]>>)],
      calls |-> calls] :
        ids \in {{}, {1}, {1, 2}, {1, 2, 3}},
        label3 \in {"function", "class", "interface", "method"},
        calls \in {R \in SUBSET (SymbolIDs \X SymbolIDs) : Cardinality(R) <= MaxCommunityCalls}}

InitCommunities ==
    /\ NewKnowledgeGraph
    /\ last = NoOp
    /\ ConcIdle
    /\ FreshStore
    /\ PipelineIdle
    /\ ReindexIdle
    /\ EmbedderIdle
    /\ ParsingIdle
    /\ WalkerIdle
    /\ HybridIdle
    /\ DeadIdle
    /\ CouplingIdle
    /\ ProcessesIdle
    /\ mg \in CommunityGraphs
    /\ mout = [done |-> FALSE, nodes |-> EmptyMap, edges |-> EmptyMap, ret |-> 0]

communitiesFrame == <<graphVars, last, concVars, storeVars, pipeVars, hybridVars, deadVars,
                      couplingVars, processesVars, mg, walkerVars, parsingVars, embedderVars, reindexVars>>

DoDetectCommunities ==
    /\ ~mout.done
    /\ mout' \in DetectCommunitiesResults(mg)
    /\ UNCHANGED communitiesFrame

NextCommunities == DoDetectCommunities

SpecCommunities == InitCommunities /\ [][NextCommunities]_vars

\* C23: after community detection every symbol node it processed
\* (function, method, class, interface) has exactly one member_of edge,
\* which leads to a community node, and every community node has at
\* least one member.
C23_CommunityCoverage ==
    mout.done =>
        /\ \A s \in getSymbolNodes(mg) :
            /\ Cardinality({e \in MapValues(mout.edges) : e.source = s}) = 1
            /\ \A e \in MapValues(mout.edges) :
                e.source = s => e.target \in DOMAIN mout.nodes
        /\ \A c \in DOMAIN mout.nodes :
            /\ mout.nodes[c].label = "community"
            /\ \E e \in MapValues(mout.edges) : e.target = c
        /\ \A e \in MapValues(mout.edges) : e.source \in getSymbolNodes(mg)

\* Three symbols were put into two communities.
C23_Witness ==
    /\ mout.done
    /\ Cardinality(getSymbolNodes(mg)) = 3
    /\ mout.ret = 2

\* ------------------------------------------------------------------
\* Repository walker (internal/ingestion/walker.go)
\* ------------------------------------------------------------------

\* The index of the last "." in a file name, 0 if there is none.
LastDot(name) ==
    IF \E i \in DOMAIN name : name[i] = "."
    THEN CHOOSE i \in DOMAIN name :
            /\ name[i] = "."
            /\ \A j \in DOMAIN name : name[j] = "." => j <= i
    ELSE 0

\* filepath.Ext: the suffix beginning at the final dot, empty without one.
Ext(name) ==
    IF LastDot(name) = 0 THEN <<>>
    ELSE SubSeq(name, LastDot(name), Len(name))

supportedExtensions ==
    (<<".", "p", "y">> :> "python") @@ (<<".", "t", "s">> :> "typescript") @@
    (<<".", "t", "s", "x">> :> "typescript") @@ (<<".", "j", "s">> :> "javascript") @@
    (<<".", "j", "s", "x">> :> "javascript") @@ (<<".", "m", "j", "s">> :> "javascript") @@
    (<<".", "c", "j", "s">> :> "javascript") @@ (<<".", "g", "o">> :> "go")

isSupportedFile(filename) == ToLower(Ext(filename)) \in DOMAIN supportedExtensions

getLanguage(filename) ==
    IF isSupportedFile(filename) THEN supportedExtensions[ToLower(Ext(filename))]
    ELSE ""

\* shouldSkipDir: .git always, otherwise what the ignore matcher says
\* about the directory (item.ignored).
shouldSkipDir(item) == item.name = <<".", "g", "i", "t">> \/ item.ignored

JoinPath(prefix, name) == IF prefix = <<>> THEN name ELSE prefix \o <<"/">> \o name

WalkFileEntry(item, relPath) ==
    [relPath |-> relPath, language |-> getLanguage(item.name)]

\* The callback WalkRepo hands to filepath.WalkDir, called with a nil
\* error on one directory entry: the entries afterwards and what it returns.
WalkCallback(item, relPath, entries) ==
    IF item.dir
    THEN [entries |-> entries,
          ret |-> IF shouldSkipDir(item) THEN "SkipDir" ELSE "nil"]
    ELSE IF ~isSupportedFile(item.name) THEN [entries |-> entries, ret |-> "nil"]
    ELSE IF item.ignored THEN [entries |-> entries, ret |-> "nil"]
    ELSE IF ~item.readable THEN [entries |-> entries, ret |-> "error"]
    ELSE [entries |-> Append(entries, WalkFileEntry(item, relPath)), ret |-> "nil"]

\* filepath.WalkDir below a directory that was read: its entries in
\* lexical order; a directory whose callback returned nil is read, a failed
\* read is handed to the callback, which returns the error; the first
\* error ends the walk.
RECURSIVE WalkEntries(_, _, _, _)
WalkEntries(items, i, prefix, st) ==
    IF i > Len(items) \/ st.err # "nil" THEN st
    ELSE LET item == items[i]
             rel == JoinPath(prefix, item.name)
             cb == WalkCallback(item, rel, st.entries)
             after ==
                IF cb.ret = "error" THEN [entries |-> cb.entries, err |-> "error"]
                ELSE IF cb.ret = "SkipDir" \/ ~item.dir
                     THEN [entries |-> cb.entries, err |-> "nil"]
                ELSE IF ~item.readable
                     THEN [entries |-> cb.entries, err |-> "error"]
                ELSE WalkEntries(item.inner, 1, rel,
                                 [entries |-> cb.entries, err |-> "nil"])
         IN WalkEntries(items, i + 1, prefix, after)

\* WalkRepo on a root that does not exist (Lstat fails: the callback gets
\* the error and returns it), cannot be read, or can be walked.
WalkRepoResult(tree) ==
    IF ~tree.exists THEN [done |-> TRUE, entries |-> <<>>, err |-> "error"]
    ELSE IF ~tree.readable THEN [done |-> TRUE, entries |-> <<>>, err |-> "error"]
    ELSE LET st == WalkEntries(tree.items, 1, <<>>, [entries |-> <<>>, err |-> "nil"])
         IN [done |-> TRUE, entries |-> st.entries, err |-> st.err]

WalkFile(name, ignored, readable) ==
    [name |-> name, dir |-> FALSE, ignored |-> ignored, readable |-> readable,
     inner |-> <<>>]

WalkDirItem(name, ignored, readable, inner) ==
    [name |-> name, dir |-> TRUE, ignored |-> ignored, readable |-> readable,
     inner |-> inner]

\* What may stand at each position of the root directory (lexical order):
\* a directory, then two files.
WalkInnerFiles ==
    {<<>>} \cup {<<WalkFile(<<"m", ".", "j", "s">>, ig, rd)>> : ig \in BOOLEAN, rd \in BOOLEAN}

WalkItemChoices(pos) ==
    IF pos = 1
    THEN {<<WalkDirItem(n, ig, rd, inner)>> :
            n \in {<<".", "g", "i", "t">>, <<"L", "i", "b">>}, ig \in BOOLEAN, rd \in BOOLEAN,
            inner \in WalkInnerFiles}
    ELSE IF pos = 2
    THEN {<<WalkFile(n, ig, rd)>> :
            n \in {<<"a", ".", "g", "o">>, <<"a", ".", "m", "d">>}, ig \in BOOLEAN, rd \in BOOLEAN}
    ELSE {<<WalkFile(n, ig, rd)>> :
            n \in {<<"b", ".", "P", "Y">>, <<"b">>}, ig \in BOOLEAN, rd \in BOOLEAN}

WalkTrees ==
    {[exists |-> ex, readable |-> rd, items |-> a \o b \o c] :
        ex \in BOOLEAN, rd \in BOOLEAN,
        a \in WalkItemChoices(1) \cup {<<>>},
        b \in WalkItemChoices(2) \cup {<<>>},
        c \in WalkItemChoices(3) \cup {<<>>}}

InitWalker ==
    /\ NewKnowledgeGraph
    /\ last = NoOp
    /\ ConcIdle
    /\ FreshStore
    /\ PipelineIdle
    /\ ReindexIdle
    /\ EmbedderIdle
    /\ ParsingIdle
    /\ HybridIdle
    /\ DeadIdle
    /\ CouplingIdle
    /\ ProcessesIdle
    /\ CommunitiesIdle
    /\ wtree \in WalkTrees
    /\ wout = [done |-> FALSE, entries |-> <<>>, err |-> "nil"]

walkerFrame == <<graphVars, last, concVars, storeVars, pipeVars, hybridVars, deadVars,
                 couplingVars, processesVars, communitiesVars, wtree, parsingVars, embedderVars, reindexVars>>

DoWalkRepo ==
    /\ ~wout.done
    /\ wout' = WalkRepoResult(wtree)
    /\ UNCHANGED walkerFrame

NextWalker == DoWalkRepo

SpecWalker == InitWalker /\ [][NextWalker]_vars

\* The supported files below the root that can be listed, are not ignored
\* and can be read.
WalkableFile(item) ==
    ~item.dir /\ isSupportedFile(item.name) /\ ~item.ignored /\ item.readable

ReadableSupportedPaths(tree) ==
    {tree.items[i].name : i \in {k \in DOMAIN tree.items : WalkableFile(tree.items[k])}}
    \cup
    UNION {{JoinPath(tree.items[i].name, tree.items[i].inner[j].name) :
              j \in {k \in DOMAIN tree.items[i].inner :
                        WalkableFile(tree.items[i].inner[k])}} :
           i \in {k \in DOMAIN tree.items :
                    /\ tree.items[k].dir
                    /\ ~shouldSkipDir(tree.items[k])
                    /\ tree.items[k].readable}}

\* C25: WalkRepo returns an error only when the root directory itself is
\* inaccessible; with an accessible root, a file that cannot be read is
\* skipped and the entries of all other supported files are returned.
C25_ErrorOnlyForRoot ==
    wout.done =>
        /\ wout.err # "nil" => ~(wtree.exists /\ wtree.readable)
        /\ (wtree.exists /\ wtree.readable) =>
            {wout.entries[i].relPath : i \in DOMAIN wout.entries}
                = ReadableSupportedPaths(wtree)

\* ------------------------------------------------------------------
\* Parsing phase (internal/ingestion/pipeline.go, internal/parsers/go.go)
\* ------------------------------------------------------------------

MaxSymbolsPerFile == 2

\* GenerateID: {label}:{file_path}:{symbol_name}, without the name part
\* when the name is empty.
GenerateID(label, filePath, symbolName) ==
    IF symbolName = <<>> THEN <<label>> \o <<":">> \o filePath
    ELSE <<label>> \o <<":">> \o filePath \o <<":">> \o symbolName

\* parseFuncDecl: a declaration with a receiver is a method of the
\* receiver's type, one without is a function.
parseFuncDecl(name, recv) ==
    IF recv # <<>>
    THEN [kind |-> "method", name |-> name, className |-> recv]
    ELSE [kind |-> "function", name |-> name, className |-> <<>>]

\* parseTypeSpec: a struct type is a class.
parseTypeSpec(name) == [kind |-> "class", name |-> name, className |-> <<>>]

\* The label ProcessParsing gives a symbol of a kind.
ParseLabel(kind) ==
    IF kind \in {"function", "method", "class", "interface", "type_alias"}
    THEN kind
    ELSE "function"

ParseNodeID(entry, sym) == GenerateID(ParseLabel(sym.kind), entry.relPath, sym.name)

ParseNode(entry, sym) ==
    [id |-> ParseNodeID(entry, sym), label |-> ParseLabel(sym.kind),
     name |-> sym.name, filePath |-> entry.relPath, className |-> sym.className]

ParseDefines(entry, sym) ==
    [id |-> GenerateID("function", entry.relPath, sym.name),
     type |-> "defines",
     source |-> GenerateID("file", entry.relPath, <<>>),
     target |-> ParseNodeID(entry, sym)]

\* The loop over result.Symbols of one entry: AddNode and AddRelationship
\* store under the ID, replacing what was stored under it.
RECURSIVE ParseSymbols(_, _, _)
ParseSymbols(entry, i, st) ==
    IF i > Len(entry.symbols) THEN st
    ELSE LET sym == entry.symbols[i]
             node == ParseNode(entry, sym)
             rel == ParseDefines(entry, sym)
         IN ParseSymbols(entry, i + 1,
                [nodes |-> MapPut(st.nodes, node.id, node),
                 rels |-> MapPut(st.rels, rel.id, rel)])

RECURSIVE ParseEntries(_, _, _)
ParseEntries(entries, i, st) ==
    IF i > Len(entries) THEN st
    ELSE ParseEntries(entries, i + 1, ParseSymbols(entries[i], 1, st))

ProcessParsingResult(entries) ==
    LET st == ParseEntries(entries, 1, [nodes |-> EmptyMap, rels |-> EmptyMap])
    IN [done |-> TRUE, nodes |-> st.nodes, rels |-> st.rels]

\* The declarations a Go file may hold: a function, two struct types and
\* methods on them; the parser reports them in source order.
GoDeclarations ==
    {parseFuncDecl(<<"R", "u", "n">>, <<>>), parseTypeSpec(<<"A">>), parseTypeSpec(<<"B">>),
     parseFuncDecl(<<"R", "u", "n">>, <<"A">>), parseFuncDecl(<<"R", "u", "n">>, <<"B">>),
     parseFuncDecl(<<"S", "t", "o", "p">>, <<"A">>)}

\* The symbol lists of files that compile: no declaration twice.
GoSymbolLists ==
    {<<>>} \cup {<<a>> : a \in GoDeclarations}
    \cup {<<p[1], p[2]>> : p \in {q \in GoDeclarations \X GoDeclarations : q[1] # q[2]}}

ParseEntryLists ==
    {<<>>}
    \cup {<<[relPath |-> <<"a", ".", "g", "o">>, symbols |-> sa]>> : sa \in GoSymbolLists}
    \cup {<<[relPath |-> <<"a", ".", "g", "o">>, symbols |-> sa],
            [relPath |-> <<"p", "/", "b", ".", "g", "o">>, symbols |-> sb]>> :
            sa \in GoSymbolLists, sb \in GoSymbolLists}

InitParsing ==
    /\ NewKnowledgeGraph
    /\ last = NoOp
    /\ ConcIdle
    /\ FreshStore
    /\ PipelineIdle
    /\ ReindexIdle
    /\ EmbedderIdle
    /\ HybridIdle
    /\ DeadIdle
    /\ CouplingIdle
    /\ ProcessesIdle
    /\ CommunitiesIdle
    /\ WalkerIdle
    /\ aentries \in ParseEntryLists
    /\ \A i \in DOMAIN aentries : Len(aentries[i].symbols) <= MaxSymbolsPerFile
    /\ aout = [done |-> FALSE, nodes |-> EmptyMap, rels |-> EmptyMap]

parsingFrame == <<graphVars, last, concVars, storeVars, pipeVars, hybridVars, deadVars,
                  couplingVars, processesVars, communitiesVars, walkerVars, aentries, embedderVars, reindexVars>>

DoProcessParsing ==
    /\ ~aout.done
    /\ aout' = ProcessParsingResult(aentries)
    /\ UNCHANGED parsingFrame

NextParsing == DoProcessParsing

SpecParsing == InitParsing /\ [][NextParsing]_vars

\* The parsed symbols of the entries: (entry index, symbol index).
ParsedSymbols ==
    {p \in (DOMAIN aentries) \X (1..MaxSymbolsPerFile) :
        p[2] \in DOMAIN aentries[p[1]].symbols}

\* C27: distinct parsed symbols receive distinct node IDs, so after
\* ProcessParsing the graph holds, for every parsed symbol, a node with
\* that symbol's payload: no AddNode call overwrote the node of another
\* symbol.
C27_DistinctSymbolIDs ==
    aout.done =>
        /\ \A p, q \in ParsedSymbols :
            p # q => ParseNodeID(aentries[p[1]], aentries[p[1]].symbols[p[2]])
                        # ParseNodeID(aentries[q[1]], aentries[q[1]].symbols[q[2]])
        /\ \A p \in ParsedSymbols :
            LET entry == aentries[p[1]]
                sym == entry.symbols[p[2]]
            IN /\ ParseNodeID(entry, sym) \in DOMAIN aout.nodes
               /\ aout.nodes[ParseNodeID(entry, sym)] = ParseNode(entry, sym)

\* ------------------------------------------------------------------
\* TF-IDF embedder (internal/embeddings)
\* ------------------------------------------------------------------

EmbeddingDimension == 100

MaxDocs == 3

\* A document text is kept as the sequence of its maximal runs of letters
\* and digits, which is what strings.FieldsFunc splits it into.
\* tokenize: lower-case, split on non-alphanumerics, drop terms shorter
\* than two characters.
tokenize(text) ==
    SelectSeq([i \in DOMAIN text |-> ToLower(text[i])], LAMBDA t : Len(t) >= 2)

\* BuildVocabulary, the loop over the terms of one document: a term that
\* is not in the vocabulary gets the next index; the method returns as soon
\* as the index reaches EmbeddingDimension.  (seen[term] only spares the
\* look-up of a term that is in the vocabulary already.)
VocabularyOfTerms(terms, st) ==
    LET fresh == {i \in DOMAIN terms :
                    /\ terms[i] \notin DOMAIN st.vocab
                    /\ \A j \in 1..(i - 1) : terms[j] # terms[i]}
        indexOf(i) == st.termIndex + Cardinality({j \in fresh : j < i})
        added == {i \in fresh : indexOf(i) < EmbeddingDimension}
    IN [vocab |-> st.vocab @@ [t \in {terms[i] : i \in added} |->
                                indexOf(CHOOSE i \in added : terms[i] = t)],
        termIndex |-> st.termIndex + Cardinality(added),
        returned |-> st.termIndex + Cardinality(fresh) >= EmbeddingDimension]

RECURSIVE VocabularyOfDocs(_, _, _)
VocabularyOfDocs(docs, i, st) ==
    IF i > Len(docs) \/ st.returned THEN st
    ELSE VocabularyOfDocs(docs, i + 1, VocabularyOfTerms(tokenize(docs[i]), st))

\* BuildVocabulary: e.vocab and e.docCount afterwards; e.docCount is
\* assigned after the loops only.
BuildVocabulary(docs, vocab, docCount) ==
    LET st == VocabularyOfDocs(docs, 1,
                [vocab |-> vocab, termIndex |-> 0, returned |-> FALSE])
    IN [vocab |-> st.vocab,
        docCount |-> IF st.returned THEN docCount ELSE Len(docs)]

\* The set of terms of each document.
TermSets(docs) == [d \in DOMAIN docs |-> {tokenize(docs[d])[i] : i \in DOMAIN tokenize(docs[d])}] @@ <<>>

\* ComputeIDF: docFreq counts the documents a term occurs in.
DocFreq(termSets) ==
    [t \in UNION {termSets[d] : d \in DOMAIN termSets} |->
        Cardinality({d \in DOMAIN termSets : t \in termSets[d]})] @@ EmptyMap

\* ComputeIDF: e.idf[term] = math.Log(float64(e.docCount) / float64(df)),
\* kept as the pair (N, df).
IDFOf(docFreq, idf, docCount) ==
    [t \in DOMAIN docFreq |-> [n |-> docCount, df |-> docFreq[t]]] @@ idf

ComputeIDF(docs, idf, docCount) == IDFOf(DocFreq(TermSets(docs)), idf, docCount)

DigitChars == <<"0", "1", "2", "3", "4", "5", "6", "7", "8", "9">>

\* The n-th identifier: a capital letter and a digit.
TermWord(n) == <<UpperLetters[(n \div 10) + 1], DigitChars[(n % 10) + 1]>>

\* A document text: the word "x" and the identifiers a to b.
DocText(a, b) ==
    <<<<"x">>>> \o [i \in 1..(b - a + 1) |-> TermWord(a + i - 1)]

\* Documents of up to 34 terms; the third, fourth and last hold
\* EmbeddingDimension distinct terms between them, one less with the fifth
\* in place of the last.
EmbedDocs ==
    {DocText(1, 2), DocText(2, 3), DocText(1, 34), DocText(35, 68),
     DocText(69, 99), DocText(69, 100)}

EmbedDocLists == UNION {[1..n -> EmbedDocs] : n \in 0..MaxDocs}

InitEmbedder ==
    /\ NewKnowledgeGraph
    /\ last = NoOp
    /\ ConcIdle
    /\ FreshStore
    /\ PipelineIdle
    /\ ReindexIdle
    /\ HybridIdle
    /\ DeadIdle
    /\ CouplingIdle
    /\ ProcessesIdle
    /\ CommunitiesIdle
    /\ WalkerIdle
    /\ ParsingIdle
    /\ edocs \in EmbedDocLists
    /\ evocab = EmptyMap
    /\ edocCount = 0
    /\ eidf = EmptyMap
    /\ epc = "vocabulary"

embedderFrame == <<graphVars, last, concVars, storeVars, pipeVars, hybridVars, deadVars,
                   couplingVars, processesVars, communitiesVars, walkerVars, parsingVars,
                   edocs, reindexVars>>

\* EmbedNodes: e.BuildVocabulary(docs)
DoBuildVocabulary ==
    /\ epc = "vocabulary"
    /\ LET r == BuildVocabulary(edocs, evocab, edocCount)
       IN /\ evocab' = r.vocab
          /\ edocCount' = r.docCount
    /\ epc' = "idf"
    /\ UNCHANGED <<eidf, embedderFrame>>

\* EmbedNodes: e.ComputeIDF(docs)
DoComputeIDF ==
    /\ epc = "idf"
    /\ eidf' = ComputeIDF(edocs, eidf, edocCount)
    /\ epc' = "done"
    /\ UNCHANGED <<evocab, edocCount, embedderFrame>>

NextEmbedder == DoBuildVocabulary \/ DoComputeIDF

SpecEmbedder == InitEmbedder /\ [][NextEmbedder]_vars

\* C28: the document count N the IDF pass uses equals the number of
\* documents given to the vocabulary pass, for every corpus, also when the
\* vocabulary reaches the cap of EmbeddingDimension terms.
C28_DocumentCount ==
    /\ epc \in {"idf", "done"} => edocCount = Len(edocs)
    /\ epc = "done" => \A t \in DOMAIN eidf : eidf[t].n = Len(edocs)

\* ------------------------------------------------------------------
\* Incremental re-indexing (ReindexFiles, processFileLocalPhases)
\* ------------------------------------------------------------------

\* Every file declares one function: a.go declares NodeName(1), b.go
\* NodeName(2); the content of a file is the set of functions its body
\* calls by name.
SymbolOf(path) == CHOOSE i \in NodeIDs : FileOf(i) = path

\* GenerateID(NodeFile, path, "") for the file nodes, which lie beyond the
\* symbol IDs.
ReindexFileID(path) == MaxNodeID + SymbolOf(path)

\* ProcessStructure: the file node of an entry.
ReindexFileNode(path) ==
    [id |-> ReindexFileID(path), label |-> "file", filePath |-> path,
     name |-> BaseName(path)]

\* ProcessParsing: the node of the function an entry declares.
ReindexSymbolNode(path) ==
    [id |-> SymbolOf(path), label |-> "function", filePath |-> path,
     name |-> NodeName(SymbolOf(path))]

\* ProcessParsing: the defines relationship; its ID is built from the file
\* and the symbol name.
ReindexDefines(path) ==
    [id |-> 100 + SymbolOf(path), type |-> "defines",
     source |-> ReindexFileID(path), target |-> SymbolOf(path)]

\* findSymbolTarget for a plain call: the function node of that name in g,
\* none if g has no such node.
findSymbolTarget(gNodes, callee) ==
    {id \in DOMAIN gNodes :
        gNodes[id].label = "function" /\ gNodes[id].name = NodeName(callee)}

\* ProcessCalls: for every symbol of a file and every call of that file
\* whose target is found in g, a calls relationship whose ID is built from
\* the file, the symbol name and the called name.
ProcessCallsOf(gNodes, paths, repo) ==
    {[id |-> 10 * SymbolOf(p) + c, type |-> "calls",
      source |-> SymbolOf(p), target |-> t] :
        <<p, c, t>> \in {x \in paths \X NodeIDs \X NodeIDs :
                            /\ x[2] \in repo[x[1]]
                            /\ x[3] \in findSymbolTarget(gNodes, x[2])}}

\* processFileLocalPhases: the graph built from the given entries alone.
processFileLocalPhases(entries, repo) ==
    LET paths == {entries[i] : i \in DOMAIN entries}
        nodeSet == {ReindexFileNode(p) : p \in paths}
                    \cup {ReindexSymbolNode(p) : p \in paths}
        gNodes == [id \in {n.id : n \in nodeSet} |->
                        CHOOSE n \in nodeSet : n.id = id]
        relSet == {ReindexDefines(p) : p \in paths}
                    \cup ProcessCallsOf(gNodes, paths, repo)
    IN [nodes |-> gNodes,
        rels |-> [id \in {r.id : r \in relSet} |-> CHOOSE r \in relSet : r.id = id]]

ReindexRepos == [FilePaths -> SUBSET NodeIDs]

\* The entries the watcher hands over: changed files, each once.
ReindexEntryLists ==
    {<<>>} \cup {<<p>> : p \in FilePaths}
    \cup {<<p[1], p[2]>> : p \in {q \in FilePaths \X FilePaths : q[1] # q[2]}}

StoreReads ==
    [callers |-> [s \in NodeIDs |-> GetCallers(s)],
     callees |-> [s \in NodeIDs |-> GetCallees(s)],
     nodes |-> kvNode]

InitReindex ==
    /\ NewKnowledgeGraph
    /\ last = NoOp
    /\ ConcIdle
    /\ FreshStore
    /\ PipelineIdle
    /\ HybridIdle
    /\ DeadIdle
    /\ CouplingIdle
    /\ ProcessesIdle
    /\ CommunitiesIdle
    /\ WalkerIdle
    /\ ParsingIdle
    /\ EmbedderIdle
    /\ rrepo \in ReindexRepos
    /\ rold = rrepo
    /\ rentries = <<>>
    /\ rtodo = <<>>
    /\ rpc = "index"
    /\ rret = 0
    /\ rsnap = EmptyMap

reindexFrame == <<graphVars, last, concVars, pipeVars, hybridVars, deadVars,
                  couplingVars, processesVars, communitiesVars, walkerVars, parsingVars,
                  embedderVars>>

\* RunPipeline on the whole repository: the graph of all files is loaded
\* into the fresh store.
DoIndexRepository ==
    /\ rpc = "index"
    /\ LET g == processFileLocalPhases(<<"a.go", "b.go">>, rrepo)
       IN BulkLoad(g.nodes, g.rels, TRUE)
    /\ rpc' = "watch"
    /\ UNCHANGED <<rrepo, rold, rentries, rtodo, rret, rsnap, reindexFrame>>

\* ReindexFiles is called with the entries of files that were written,
\* with new or with the same content; without entries it returns 0.
DoReindexFiles ==
    /\ rpc = "watch"
    /\ \E entries \in ReindexEntryLists, repo \in ReindexRepos :
        /\ \A p \in FilePaths : (\A i \in DOMAIN entries : entries[i] # p) => repo[p] = rrepo[p]
        /\ rentries' = entries
        /\ rtodo' = entries
        /\ rold' = rrepo
        /\ rrepo' = repo
        /\ rpc' = IF entries = <<>> THEN "done" ELSE "remove"
    /\ rret' = 0
    /\ rsnap' = StoreReads
    /\ UNCHANGED <<storeVars, reindexFrame>>

\* ReindexFiles: store.RemoveNodesByFile(entry.RelPath), its error ignored.
DoReindexRemove ==
    /\ rpc = "remove"
    /\ \E ok \in BOOLEAN : BadgerRemoveNodesByFile(Head(rtodo), ok)
    /\ rtodo' = Tail(rtodo)
    /\ rpc' = IF Tail(rtodo) = <<>> THEN "load" ELSE "remove"
    /\ UNCHANGED <<rrepo, rold, rentries, rret, rsnap, reindexFrame>>

\* ReindexFiles: processFileLocalPhases(entries), then store.BulkLoad(g);
\* it returns len(entries), or 0 if the load failed.
DoReindexLoad ==
    /\ rpc = "load"
    /\ \E ok \in BOOLEAN :
        /\ LET g == processFileLocalPhases(rentries, rrepo)
           IN BulkLoad(g.nodes, g.rels, ok)
        /\ rret' = IF ok THEN Len(rentries) ELSE 0
    /\ rpc' = "done"
    /\ UNCHANGED <<rrepo, rold, rentries, rtodo, rsnap, reindexFrame>>

NextReindex ==
    \/ DoIndexRepository
    \/ DoReindexFiles
    \/ DoReindexRemove
    \/ DoReindexLoad

SpecReindex == InitReindex /\ [][NextReindex]_vars

ReindexedPaths == {rentries[i] : i \in DOMAIN rentries}

\* ReindexFiles has returned the number of its entries.
Reindexed == rpc = "done" /\ rentries # <<>> /\ rret = Len(rentries)

\* C29: after ReindexFiles has re-indexed a set of changed files, the nodes
\* of the other files are still returned by fts_search for the tokens of
\* their names and are still counted by node_count().
C29_OtherFilesUntouched ==
    Reindexed =>
        /\ \A n \in MapValues(kvNode) :
            n.filePath \notin ReindexedPaths =>
                \A token \in NameTokens(n) :
                    \A found \in FTSSearch(token, 2 * MaxNodeID) : n.id \in found
        /\ BadgerNodeCount = Cardinality(DOMAIN kvNode)

\* C30: after re-indexing a file whose content has not changed, every
\* symbol defined in that file has the callers and the callees it had
\* before, those defined in other files included.
C30_CallsIntact ==
    (Reindexed /\ rrepo = rold) =>
        \A p \in ReindexedPaths :
            /\ GetCallers(SymbolOf(p)) = rsnap.callers[SymbolOf(p)]
            /\ GetCallees(SymbolOf(p)) = rsnap.callees[SymbolOf(p)]

====
